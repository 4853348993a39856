-------------------------- MODULE HpljInstall_proofs --------------------------
(***************************************************************************)
(* Proofs about HpljInstall: type correctness, that what is reported is    *)
(* so, that foreign artifacts stay, and that an uninstall can be taken up  *)
(* again, for any number of operations and whatever fails or stops.        *)
(*                                                                         *)
(* As in HpljUpdate_proofs, the helper's program counter is the steps it   *)
(* has left. A mode (an operation, or the part of uninstall it has decided *)
(* on) owns steps (Belongs) and says of each what comes next (Follows);    *)
(* the programs are such sequences (the Stretch lemmas). The inductive     *)
(* invariant says what is so when the helper comes to a step (Ready).      *)
(***************************************************************************)
EXTENDS HpljInstall, TLAPS

\* Every question is answered; launchctl disable works.
Hearing == Deaf = {}
Heeded  == "override" \notin Unreliable

-----------------------------------------------------------------------------
(* The inductive invariant *)

Quiet == ~loaded /\ ~serving
Clear == ~ForeignFound

HostHolds ==
  /\ serving => Whole
  /\ Ours(host, "data") => There(host, "root")
  /\ ForeignFound => \A a \in Artifacts \ {"receipt"} :
                       ~Ours(host, a) /\ host[a] # "torn"
  /\ host["receipt"] \in {"absent", "ours"}

CleanIsTrue == result = "clean" => Remains = {} /\ ~off /\ Quiet

DisabledIsTrue ==
  result = "disabled" => Quiet /\ off /\ (Ours(host, "queue") => held)

ReportHolds ==
  /\ result # "none" => todo = <<>>
  /\ CleanIsTrue /\ DisabledIsTrue
  /\ Heeded /\ result = "incomplete" /\ op # "install" => ~Startable

\* What the helper is about: an operation, or what uninstall has decided to do
Uninstalling == {"decide", "remove", "refuse", "forget", "rest"}
Modes == {"install", "enable", "disable", "cleanup"} \union Uninstalling

Disabling == {"hold", "held?", "override", "unloaded?", "silent?",
              "overridden?", "no_failures?"}
Starting == {"bootstrap", "serving?", "make_queue", "serves?", "enabled"}
Creating == {"account", "delete_user", "delete_group", "create_group",
             "create_user"}
Removal == {"account?", "remove_queue", "remove_logs", "remove_root",
            "remove_user", "remove_group", "no_blocking?", "remove_plist"}

\* The steps of a mode
Does(mode) ==
  CASE mode = "install" -> {"may_install?", "make_root", "copy_app", "own_app",
                            "make_marker", "make_plist", "bootout",
                            "make_paths", "valid?", "try", "clear_override"}
                           \union Disabling \union Creating \union Starting
    [] mode = "enable"  -> {"ours?", "bootout", "make_paths", "clear_override",
                            "release"} \union Starting
    [] mode = "disable" -> {"ours?", "bootout", "disabled"} \union Disabling
    [] mode \in {"cleanup", "refuse"} -> {"bootout", "fail"} \union Disabling
    [] mode = "decide"  -> {"uninstall"}
    [] mode = "remove"  -> {"bootout", "clear_override", "forget", "settled?",
                            "clean?"} \union Disabling \union Removal
    [] mode = "forget"  -> {"clear_override", "forget", "settled?", "clean?"}
    [] mode = "rest"    -> {"clean"}

\* What a failure of a step means
OnFailure(mode, do) ==
  CASE do \in {"bootout", "delete_user", "delete_group"} -> "ignore"
    [] do \in (Disabling \ {"no_failures?"})
              \union (Removal \ {"account?", "no_blocking?"})
              \union {"forget"} -> "note"
    [] do = "clear_override" /\ mode \in {"remove", "forget"} -> "note"
    [] OTHER -> "raise"

Belongs(mode, s) == s.do \in Does(mode) /\ s.on = OnFailure(mode, s.do)

\* What comes after a step
After(mode, do) ==
  CASE do = "may_install?" -> {"make_root"}
    [] do = "make_root"    -> {"copy_app"}
    [] do = "copy_app"     -> {"own_app"}
    [] do = "own_app"      -> {"make_marker"}
    [] do = "make_marker"  -> {"make_plist"}
    [] do = "make_plist"   -> {"hold"}
    [] do = "ours?"        -> {IF mode = "enable" THEN "bootout" ELSE "hold"}
    [] do = "hold"         -> {"held?"}
    [] do = "held?"        -> {"override"}
    [] do = "override"     -> {"bootout"}
    [] do = "bootout"      -> CASE mode = "install" -> {"unloaded?",
                                                        "clear_override"}
                                [] mode = "enable"  -> {"make_paths"}
                                [] OTHER            -> {"unloaded?"}
    [] do = "unloaded?"    -> {"silent?"}
    [] do = "silent?"      -> {"overridden?"}
    [] do = "overridden?"  -> {"no_failures?"}
    [] do = "no_failures?" -> CASE mode = "install" -> {"account"}
                                [] mode = "disable" -> {"disabled"}
                                [] mode = "remove"  -> {"account?"}
                                [] OTHER            -> {"fail"}
    [] do = "account"      -> {"make_paths"}
    [] do = "delete_user"  -> {"delete_group"}
    [] do = "delete_group" -> {"create_group"}
    [] do = "create_group" -> {"create_user", "make_paths"}
    [] do = "create_user"  -> {"make_paths"}
    [] do = "make_paths"   -> {IF mode = "enable" THEN "clear_override"
                               ELSE "valid?"}
    [] do = "valid?"       -> {"try"}
    [] do = "try"          -> {"bootout"}
    [] do = "clear_override" -> CASE mode = "remove" -> {"remove_plist"}
                                  [] mode = "forget" -> {"forget"}
                                  [] OTHER           -> {"bootstrap"}
    [] do = "bootstrap"    -> {"serving?"}
    [] do = "serving?"     -> {"make_queue"}
    [] do = "make_queue"   -> {IF mode = "enable" THEN "release" ELSE "serves?"}
    [] do = "release"      -> {"serves?"}
    [] do = "serves?"      -> {"enabled"}
    [] do = "account?"     -> {"remove_queue"}
    [] do = "remove_queue" -> {"remove_logs"}
    [] do = "remove_logs"  -> {"remove_root"}
    [] do = "remove_root"  -> {"remove_user"}
    [] do = "remove_user"  -> {"remove_group"}
    [] do = "remove_group" -> {"no_blocking?"}
    [] do = "no_blocking?" -> {"clear_override"}
    [] do = "remove_plist" -> {"forget"}
    [] do = "forget"       -> {"settled?"}
    [] do = "settled?"     -> {"clean?"}
    [] OTHER -> {}

Final == {"enabled", "disabled", "fail", "uninstall", "clean?", "clean"}

\* The steps left are the rest of what a mode does.
Carries(mode, steps) ==
  /\ \A i \in 1..Len(steps) : Belongs(mode, steps[i])
  /\ \A i \in 1..Len(steps) - 1 :
       steps[i + 1].do \in After(mode, steps[i].do)
  /\ steps[Len(steps)].do \in Final

\* What is so when the helper comes to a step: while files are put in place,
ReadyToInstall(mode, do) ==
  /\ mode \in {"install", "enable", "remove"}
     /\ do \notin {"may_install?", "ours?"} => Clear
  /\ do \in {"make_root", "copy_app"} => ~Ours(host, "app")
  /\ do \in Creating => Quiet

\* while the service is disabled (everything is tried, failures are noted),
BelowOverride == {"bootout", "unloaded?", "silent?", "overridden?",
                  "no_failures?"} \union (Removal \ {"remove_plist"})

ReadyToDisable(mode, do) ==
  /\ mode = "disable" /\ do \in BelowOverride \union {"override"} =>
       failures \/ (Ours(host, "queue") => held)
  /\ Heeded /\ mode \notin {"install", "enable"} /\ do \in BelowOverride =>
       off
  /\ do \in {"silent?", "overridden?", "no_failures?"} => failures \/ ~loaded
  /\ do \in {"overridden?", "no_failures?"} => failures \/ ~serving
  /\ do = "no_failures?" => failures \/ off
  /\ do = "disabled" => Quiet /\ off /\ (Ours(host, "queue") => held)
  /\ Heeded /\ do = "fail" => ~Startable

\* and while things are removed
ReadyToRemove(mode, do) ==
  /\ mode = "remove" /\ do \notin Disabling \union {"bootout"} => Quiet
  /\ mode = "remove" /\ do \in {"clear_override", "remove_plist"} =>
       Remains \subseteq {"plist", "receipt"}
  /\ mode \in {"remove", "forget"} /\ do = "clear_override" => ~failures
  /\ do = "uninstall" => ~failures
  /\ mode = "forget" /\ do \in {"clear_override", "forget"} =>
       Remains \subseteq {"receipt"}
  /\ do = "remove_plist" => failures \/ ~off
  /\ do = "forget" => failures \/ (Remains \subseteq {"receipt"} /\ ~off)
  /\ do = "clean" => Remains = {} /\ ~off /\ Quiet

Ready(mode, do) == /\ ReadyToInstall(mode, do) /\ ReadyToDisable(mode, do)
                   /\ ReadyToRemove(mode, do)

ModeHolds(mode) ==
  /\ op = "uninstall" <=> mode \in Uninstalling
  /\ mode \in {"install", "enable", "disable"} => op = mode
  /\ mode = "cleanup" <=> clause = "cleanup"
  /\ clause = "started" => mode = "install"

HelperHolds ==
  IF todo = <<>> THEN clause = "body"
  ELSE \E mode \in Modes : /\ Carries(mode, todo) /\ ModeHolds(mode)
                           /\ Ready(mode, todo[1].do)

Inv == TypeOK /\ HostHolds /\ ReportHolds /\ HelperHolds
-----------------------------------------------------------------------------
(* The programs are what the modes say *)

Dos == Commands \union Questions \union Decisions

\* The order of the steps, line by line
LEMMA Order ==
  ASSUME NEW mode
  PROVE
    /\ After(mode, "may_install?") = {"make_root"}
    /\ After(mode, "make_root") = {"copy_app"}
    /\ After(mode, "copy_app") = {"own_app"}
    /\ After(mode, "own_app") = {"make_marker"}
    /\ After(mode, "make_marker") = {"make_plist"}
    /\ After(mode, "make_plist") = {"hold"}
    /\ After(mode, "hold") = {"held?"}
    /\ After(mode, "held?") = {"override"}
    /\ After(mode, "override") = {"bootout"}
    /\ After(mode, "unloaded?") = {"silent?"}
    /\ After(mode, "silent?") = {"overridden?"}
    /\ After(mode, "overridden?") = {"no_failures?"}
    /\ After(mode, "account") = {"make_paths"}
    /\ After(mode, "delete_user") = {"delete_group"}
    /\ After(mode, "delete_group") = {"create_group"}
    /\ After(mode, "create_user") = {"make_paths"}
    /\ After(mode, "valid?") = {"try"}
    /\ After(mode, "try") = {"bootout"}
    /\ After(mode, "bootstrap") = {"serving?"}
    /\ After(mode, "serving?") = {"make_queue"}
    /\ After(mode, "release") = {"serves?"}
    /\ After(mode, "serves?") = {"enabled"}
    /\ After(mode, "account?") = {"remove_queue"}
    /\ After(mode, "remove_queue") = {"remove_logs"}
    /\ After(mode, "remove_logs") = {"remove_root"}
    /\ After(mode, "remove_root") = {"remove_user"}
    /\ After(mode, "remove_user") = {"remove_group"}
    /\ After(mode, "remove_group") = {"no_blocking?"}
    /\ After(mode, "no_blocking?") = {"clear_override"}
    /\ After(mode, "remove_plist") = {"forget"}
    /\ After(mode, "forget") = {"settled?"}
    /\ After(mode, "settled?") = {"clean?"}
    /\ After(mode, "create_group") = {"create_user", "make_paths"}
    /\ (mode = "enable" => After(mode, "ours?") = {"bootout"})
    /\ (mode # "enable" => After(mode, "ours?") = {"hold"})
    /\ (mode = "enable" => After(mode, "make_paths") = {"clear_override"})
    /\ (mode # "enable" => After(mode, "make_paths") = {"valid?"})
    /\ (mode = "enable" => After(mode, "make_queue") = {"release"})
    /\ (mode # "enable" => After(mode, "make_queue") = {"serves?"})
    /\ (mode = "install" =>
            After(mode, "bootout") = {"unloaded?", "clear_override"})
    /\ (mode = "enable" => After(mode, "bootout") = {"make_paths"})
    /\ (mode \notin {"install", "enable"} =>
            After(mode, "bootout") = {"unloaded?"})
    /\ (mode = "install" => After(mode, "no_failures?") = {"account"})
    /\ (mode = "disable" => After(mode, "no_failures?") = {"disabled"})
    /\ (mode = "remove" => After(mode, "no_failures?") = {"account?"})
    /\ (mode \notin {"install", "disable", "remove"} =>
            After(mode, "no_failures?") = {"fail"})
    /\ (mode = "remove" => After(mode, "clear_override") = {"remove_plist"})
    /\ (mode = "forget" => After(mode, "clear_override") = {"forget"})
    /\ (mode \notin {"remove", "forget"} =>
            After(mode, "clear_override") = {"bootstrap"})
    /\ (\A do \in Final : After(mode, do) = {})
BY DEF After, Final

Stretch(mode, steps, first, last) ==
  /\ steps \in Seq(Steps) /\ steps # <<>>
  /\ steps[1].do = first /\ steps[Len(steps)].do = last
  /\ \A i \in 1..Len(steps) : Belongs(mode, steps[i])
  /\ \A i \in 1..Len(steps) - 1 :
       steps[i + 1].do \in After(mode, steps[i].do)

LEMMA Single ==
  ASSUME NEW mode \in Modes, NEW do \in Does(mode)
  PROVE  /\ OnFailure(mode, do) = "raise"  => Stretch(mode, Raise(do), do, do)
         /\ OnFailure(mode, do) = "note"   => Stretch(mode, Note(do), do, do)
         /\ OnFailure(mode, do) = "ignore" => Stretch(mode, Ignore(do), do, do)
<1> DEFINE s(on) == [do |-> do, on |-> on]
<1>1. do \in Dos
  BY DEF Does, Modes, Uninstalling, Dos, Commands, Changing, Questions,
         Decisions, Disabling, Creating, Starting, Removal
<1>2. \A on \in {"raise", "note", "ignore"} :
        s(on) \in Steps /\ s(on).do = do /\ s(on).on = on
  BY <1>1 DEF Steps, Dos
<1> HIDE DEF s
<1>3. ASSUME NEW on \in {"raise", "note", "ignore"}, OnFailure(mode, do) = on
      PROVE  Stretch(mode, <<s(on)>>, do, do)
  <2> DEFINE step == s(on)
  <2>1. step \in Steps /\ step.do = do /\ Belongs(mode, step)
    BY <1>2, <1>3 DEF Belongs
  <2> HIDE DEF step
  <2>2. Stretch(mode, <<step>>, do, do)
    BY <2>1 DEF Stretch
  <2> QED
    BY <2>2 DEF step
<1>4. /\ Raise(do) = <<s("raise")>> /\ Note(do) = <<s("note")>>
      /\ Ignore(do) = <<s("ignore")>>
  BY DEF Raise, Note, Ignore, s
<1> QED
  BY <1>3, <1>4

\* One stretch after the other
LEMMA Join ==
  ASSUME NEW mode, NEW a, NEW b, NEW first, NEW middle, NEW next, NEW last,
         Stretch(mode, a, first, middle), Stretch(mode, b, next, last),
         next \in After(mode, middle)
  PROVE  Stretch(mode, a \o b, first, last)
<1> DEFINE c == a \o b
<1>1. /\ a \in Seq(Steps) /\ b \in Seq(Steps) /\ a # <<>> /\ b # <<>>
      /\ Len(a) \in Nat \ {0} /\ Len(b) \in Nat \ {0}
  BY DEF Stretch
<1>2. c \in Seq(Steps) /\ Len(c) = Len(a) + Len(b)
  BY <1>1
<1>3. /\ \A i \in 1..Len(a) : c[i] = a[i]
      /\ \A i \in Len(a) + 1..Len(c) : c[i] = b[i - Len(a)]
  BY <1>1, <1>2
<1>4. c # <<>>
  BY <1>1, <1>2
<1>5. c[1].do = first
  BY <1>1, <1>3 DEF Stretch
<1>6. c[Len(c)].do = last
  <2>1. Len(c) \in Len(a) + 1..Len(c) /\ Len(c) - Len(a) = Len(b)
    BY <1>1, <1>2
  <2> QED
    BY <2>1, <1>3 DEF Stretch
<1>7. ASSUME NEW i \in 1..Len(c)
      PROVE  Belongs(mode, c[i])
  <2>1. CASE i <= Len(a)
    BY <2>1, <1>1, <1>3 DEF Stretch
  <2>2. CASE i > Len(a)
    <3>1. i \in Len(a) + 1..Len(c) /\ i - Len(a) \in 1..Len(b)
      BY <2>2, <1>1, <1>2
    <3> QED
      BY <3>1, <1>3 DEF Stretch
  <2> QED
    BY <2>1, <2>2, <1>1
<1>8. ASSUME NEW i \in 1..Len(c) - 1
      PROVE  c[i + 1].do \in After(mode, c[i].do)
  <2>1. CASE i < Len(a)
    <3>1. i \in 1..Len(a) - 1 /\ i \in 1..Len(a) /\ i + 1 \in 1..Len(a)
      BY <2>1, <1>1
    <3> QED
      BY <3>1, <1>3 DEF Stretch
  <2>2. CASE i = Len(a)
    <3>1. i \in 1..Len(a) /\ i + 1 \in Len(a) + 1..Len(c) /\ i + 1 - Len(a) = 1
      BY <2>2, <1>1, <1>2
    <3>2. c[i].do = middle /\ c[i + 1].do = next
      BY <3>1, <2>2, <1>3 DEF Stretch
    <3> QED
      BY <3>2
  <2>3. CASE i > Len(a)
    <3> DEFINE j == i - Len(a)
    <3>1. /\ j \in 1..Len(b) - 1 /\ i + 1 - Len(a) = j + 1
          /\ i \in Len(a) + 1..Len(c) /\ i + 1 \in Len(a) + 1..Len(c)
      BY <2>3, <1>1, <1>2
    <3>2. c[i] = b[j] /\ c[i + 1] = b[j + 1]
      BY <3>1, <1>3
    <3> HIDE DEF j
    <3> QED
      BY <3>1, <3>2 DEF Stretch
  <2> QED
    BY <2>1, <2>2, <2>3, <1>1
<1> QED
  BY <1>2, <1>4, <1>5, <1>6, <1>7, <1>8 DEF Stretch

LEMMA DisableStretch ==
  ASSUME NEW mode, mode \in {"install", "disable", "cleanup", "refuse",
                             "remove"}
  PROVE  Stretch(mode, Disable, "hold", "no_failures?")
<1> DEFINE a1 == Note("hold")
           a2 == a1 \o Note("held?")
           a3 == a2 \o Note("override")
           a4 == a3 \o Ignore("bootout")
           a5 == a4 \o Note("unloaded?")
           a6 == a5 \o Note("silent?")
           a7 == a6 \o Note("overridden?")
           a8 == a7 \o Raise("no_failures?")
<1>1. /\ Stretch(mode, Note("hold"), "hold", "hold")
      /\ Stretch(mode, Note("held?"), "held?", "held?")
      /\ Stretch(mode, Note("override"), "override", "override")
      /\ Stretch(mode, Ignore("bootout"), "bootout", "bootout")
      /\ Stretch(mode, Note("unloaded?"), "unloaded?", "unloaded?")
      /\ Stretch(mode, Note("silent?"), "silent?", "silent?")
      /\ Stretch(mode, Note("overridden?"), "overridden?", "overridden?")
      /\ Stretch(mode, Raise("no_failures?"), "no_failures?", "no_failures?")
  BY Single DEF Does, OnFailure, Modes, Uninstalling, Disabling, Creating,
                Starting, Removal
<1>2. /\ "held?" \in After(mode, "hold")
      /\ "override" \in After(mode, "held?")
      /\ "bootout" \in After(mode, "override")
      /\ "unloaded?" \in After(mode, "bootout")
      /\ "silent?" \in After(mode, "unloaded?")
      /\ "overridden?" \in After(mode, "silent?")
      /\ "no_failures?" \in After(mode, "overridden?")
  BY Order
<1>3. Disable = a8
  BY DEF Disable
<1> HIDE DEF a1, a2, a3, a4, a5, a6, a7, a8
<1>4. Stretch(mode, a1, "hold", "hold")
  BY <1>1 DEF a1
<1>5. Stretch(mode, a2, "hold", "held?")
  BY <1>1, <1>2, <1>4, Join DEF a2
<1>6. Stretch(mode, a3, "hold", "override")
  BY <1>1, <1>2, <1>5, Join DEF a3
<1>7. Stretch(mode, a4, "hold", "bootout")
  BY <1>1, <1>2, <1>6, Join DEF a4
<1>8. Stretch(mode, a5, "hold", "unloaded?")
  BY <1>1, <1>2, <1>7, Join DEF a5
<1>9. Stretch(mode, a6, "hold", "silent?")
  BY <1>1, <1>2, <1>8, Join DEF a6
<1>10. Stretch(mode, a7, "hold", "overridden?")
  BY <1>1, <1>2, <1>9, Join DEF a7
<1>11. Stretch(mode, a8, "hold", "no_failures?")
  BY <1>1, <1>2, <1>10, Join DEF a8
<1> QED
  BY <1>3, <1>11

LEMMA StartStretch ==
  ASSUME NEW mode, mode \in {"install", "enable"}
  PROVE  Stretch(mode, StartService, "clear_override", "make_queue")
<1> DEFINE a1 == Raise("clear_override")
           a2 == a1 \o Raise("bootstrap")
           a3 == a2 \o Raise("serving?")
           a4 == a3 \o Raise("make_queue")
<1>1. /\ Stretch(mode, Raise("clear_override"), "clear_override", "clear_override")
      /\ Stretch(mode, Raise("bootstrap"), "bootstrap", "bootstrap")
      /\ Stretch(mode, Raise("serving?"), "serving?", "serving?")
      /\ Stretch(mode, Raise("make_queue"), "make_queue", "make_queue")
  BY Single DEF Does, OnFailure, Modes, Uninstalling, Disabling, Creating,
                Starting, Removal
<1>2. /\ "bootstrap" \in After(mode, "clear_override")
      /\ "serving?" \in After(mode, "bootstrap")
      /\ "make_queue" \in After(mode, "serving?")
  BY Order
<1>3. StartService = a4
  BY DEF StartService
<1> HIDE DEF a1, a2, a3, a4
<1>4. Stretch(mode, a1, "clear_override", "clear_override")
  BY <1>1 DEF a1
<1>5. Stretch(mode, a2, "clear_override", "bootstrap")
  BY <1>1, <1>2, <1>4, Join DEF a2
<1>6. Stretch(mode, a3, "clear_override", "serving?")
  BY <1>1, <1>2, <1>5, Join DEF a3
<1>7. Stretch(mode, a4, "clear_override", "make_queue")
  BY <1>1, <1>2, <1>6, Join DEF a4
<1> QED
  BY <1>3, <1>7

LEMMA InstallStretch ==
  ASSUME NEW mode, mode = "install"
  PROVE  Stretch(mode, InstallSteps, "may_install?", "enabled")
<1> DEFINE a1 == Raise("may_install?")
           a2 == a1 \o Raise("make_root")
           a3 == a2 \o Raise("copy_app")
           a4 == a3 \o Raise("own_app")
           a5 == a4 \o Raise("make_marker")
           a6 == a5 \o Raise("make_plist")
           a7 == a6 \o Disable
           a8 == a7 \o Raise("account")
           a9 == a8 \o Raise("make_paths")
           a10 == a9 \o Raise("valid?")
           a11 == a10 \o Raise("try")
           a12 == a11 \o Ignore("bootout")
           a13 == a12 \o StartService
           a14 == a13 \o Raise("serves?")
           a15 == a14 \o Raise("enabled")
<1>1. /\ Stretch(mode, Raise("may_install?"), "may_install?", "may_install?")
      /\ Stretch(mode, Raise("make_root"), "make_root", "make_root")
      /\ Stretch(mode, Raise("copy_app"), "copy_app", "copy_app")
      /\ Stretch(mode, Raise("own_app"), "own_app", "own_app")
      /\ Stretch(mode, Raise("make_marker"), "make_marker", "make_marker")
      /\ Stretch(mode, Raise("make_plist"), "make_plist", "make_plist")
      /\ Stretch(mode, Raise("account"), "account", "account")
      /\ Stretch(mode, Raise("make_paths"), "make_paths", "make_paths")
      /\ Stretch(mode, Raise("valid?"), "valid?", "valid?")
      /\ Stretch(mode, Raise("try"), "try", "try")
      /\ Stretch(mode, Ignore("bootout"), "bootout", "bootout")
      /\ Stretch(mode, Raise("serves?"), "serves?", "serves?")
      /\ Stretch(mode, Raise("enabled"), "enabled", "enabled")
  BY Single DEF Does, OnFailure, Modes, Uninstalling, Disabling, Creating,
                Starting, Removal
<1>2. /\ "make_root" \in After(mode, "may_install?")
      /\ "copy_app" \in After(mode, "make_root")
      /\ "own_app" \in After(mode, "copy_app")
      /\ "make_marker" \in After(mode, "own_app")
      /\ "make_plist" \in After(mode, "make_marker")
      /\ "hold" \in After(mode, "make_plist")
      /\ "account" \in After(mode, "no_failures?")
      /\ "make_paths" \in After(mode, "account")
      /\ "valid?" \in After(mode, "make_paths")
      /\ "try" \in After(mode, "valid?")
      /\ "bootout" \in After(mode, "try")
      /\ "clear_override" \in After(mode, "bootout")
      /\ "serves?" \in After(mode, "make_queue")
      /\ "enabled" \in After(mode, "serves?")
  BY Order
<1>3. /\ Stretch(mode, Disable, "hold", "no_failures?")
      /\ Stretch(mode, StartService, "clear_override", "make_queue")
  BY DisableStretch, StartStretch DEF Modes, Uninstalling
<1>4. InstallSteps = a15
  BY DEF InstallSteps
<1> HIDE DEF a1, a2, a3, a4, a5, a6, a7, a8, a9, a10, a11, a12, a13, a14, a15
<1>5. Stretch(mode, a1, "may_install?", "may_install?")
  BY <1>1, <1>3 DEF a1
<1>6. Stretch(mode, a2, "may_install?", "make_root")
  BY <1>1, <1>3, <1>2, <1>5, Join DEF a2
<1>7. Stretch(mode, a3, "may_install?", "copy_app")
  BY <1>1, <1>3, <1>2, <1>6, Join DEF a3
<1>8. Stretch(mode, a4, "may_install?", "own_app")
  BY <1>1, <1>3, <1>2, <1>7, Join DEF a4
<1>9. Stretch(mode, a5, "may_install?", "make_marker")
  BY <1>1, <1>3, <1>2, <1>8, Join DEF a5
<1>10. Stretch(mode, a6, "may_install?", "make_plist")
  BY <1>1, <1>3, <1>2, <1>9, Join DEF a6
<1>11. Stretch(mode, a7, "may_install?", "no_failures?")
  BY <1>1, <1>3, <1>2, <1>10, Join DEF a7
<1>12. Stretch(mode, a8, "may_install?", "account")
  BY <1>1, <1>3, <1>2, <1>11, Join DEF a8
<1>13. Stretch(mode, a9, "may_install?", "make_paths")
  BY <1>1, <1>3, <1>2, <1>12, Join DEF a9
<1>14. Stretch(mode, a10, "may_install?", "valid?")
  BY <1>1, <1>3, <1>2, <1>13, Join DEF a10
<1>15. Stretch(mode, a11, "may_install?", "try")
  BY <1>1, <1>3, <1>2, <1>14, Join DEF a11
<1>16. Stretch(mode, a12, "may_install?", "bootout")
  BY <1>1, <1>3, <1>2, <1>15, Join DEF a12
<1>17. Stretch(mode, a13, "may_install?", "make_queue")
  BY <1>1, <1>3, <1>2, <1>16, Join DEF a13
<1>18. Stretch(mode, a14, "may_install?", "serves?")
  BY <1>1, <1>3, <1>2, <1>17, Join DEF a14
<1>19. Stretch(mode, a15, "may_install?", "enabled")
  BY <1>1, <1>3, <1>2, <1>18, Join DEF a15
<1> QED
  BY <1>4, <1>19

LEMMA EnableStretch ==
  ASSUME NEW mode, mode = "enable"
  PROVE  Stretch(mode, EnableSteps, "ours?", "enabled")
<1> DEFINE a1 == Raise("ours?")
           a2 == a1 \o Ignore("bootout")
           a3 == a2 \o Raise("make_paths")
           a4 == a3 \o StartService
           a5 == a4 \o Raise("release")
           a6 == a5 \o Raise("serves?")
           a7 == a6 \o Raise("enabled")
<1>1. /\ Stretch(mode, Raise("ours?"), "ours?", "ours?")
      /\ Stretch(mode, Ignore("bootout"), "bootout", "bootout")
      /\ Stretch(mode, Raise("make_paths"), "make_paths", "make_paths")
      /\ Stretch(mode, Raise("release"), "release", "release")
      /\ Stretch(mode, Raise("serves?"), "serves?", "serves?")
      /\ Stretch(mode, Raise("enabled"), "enabled", "enabled")
  BY Single DEF Does, OnFailure, Modes, Uninstalling, Disabling, Creating,
                Starting, Removal
<1>2. /\ "bootout" \in After(mode, "ours?")
      /\ "make_paths" \in After(mode, "bootout")
      /\ "clear_override" \in After(mode, "make_paths")
      /\ "release" \in After(mode, "make_queue")
      /\ "serves?" \in After(mode, "release")
      /\ "enabled" \in After(mode, "serves?")
  BY Order
<1>3. /\ Stretch(mode, StartService, "clear_override", "make_queue")
  BY StartStretch DEF Modes, Uninstalling
<1>4. EnableSteps = a7
  BY DEF EnableSteps
<1> HIDE DEF a1, a2, a3, a4, a5, a6, a7
<1>5. Stretch(mode, a1, "ours?", "ours?")
  BY <1>1, <1>3 DEF a1
<1>6. Stretch(mode, a2, "ours?", "bootout")
  BY <1>1, <1>3, <1>2, <1>5, Join DEF a2
<1>7. Stretch(mode, a3, "ours?", "make_paths")
  BY <1>1, <1>3, <1>2, <1>6, Join DEF a3
<1>8. Stretch(mode, a4, "ours?", "make_queue")
  BY <1>1, <1>3, <1>2, <1>7, Join DEF a4
<1>9. Stretch(mode, a5, "ours?", "release")
  BY <1>1, <1>3, <1>2, <1>8, Join DEF a5
<1>10. Stretch(mode, a6, "ours?", "serves?")
  BY <1>1, <1>3, <1>2, <1>9, Join DEF a6
<1>11. Stretch(mode, a7, "ours?", "enabled")
  BY <1>1, <1>3, <1>2, <1>10, Join DEF a7
<1> QED
  BY <1>4, <1>11

LEMMA DisablingStretch ==
  ASSUME NEW mode, mode = "disable"
  PROVE  Stretch(mode, DisableSteps, "ours?", "disabled")
<1> DEFINE a1 == Raise("ours?")
           a2 == a1 \o Disable
           a3 == a2 \o Raise("disabled")
<1>1. /\ Stretch(mode, Raise("ours?"), "ours?", "ours?")
      /\ Stretch(mode, Raise("disabled"), "disabled", "disabled")
  BY Single DEF Does, OnFailure, Modes, Uninstalling, Disabling, Creating,
                Starting, Removal
<1>2. /\ "hold" \in After(mode, "ours?")
      /\ "disabled" \in After(mode, "no_failures?")
  BY Order
<1>3. /\ Stretch(mode, Disable, "hold", "no_failures?")
  BY DisableStretch DEF Modes, Uninstalling
<1>4. DisableSteps = a3
  BY DEF DisableSteps
<1> HIDE DEF a1, a2, a3
<1>5. Stretch(mode, a1, "ours?", "ours?")
  BY <1>1, <1>3 DEF a1
<1>6. Stretch(mode, a2, "ours?", "no_failures?")
  BY <1>1, <1>3, <1>2, <1>5, Join DEF a2
<1>7. Stretch(mode, a3, "ours?", "disabled")
  BY <1>1, <1>3, <1>2, <1>6, Join DEF a3
<1> QED
  BY <1>4, <1>7

LEMMA RemoveStretch ==
  ASSUME NEW mode, mode = "remove"
  PROVE  Stretch(mode, RemoveAll, "hold", "clean?")
<1> DEFINE a1 == Disable
           a2 == a1 \o Raise("account?")
           a3 == a2 \o Note("remove_queue")
           a4 == a3 \o Note("remove_logs")
           a5 == a4 \o Note("remove_root")
           a6 == a5 \o Note("remove_user")
           a7 == a6 \o Note("remove_group")
           a8 == a7 \o Raise("no_blocking?")
           a9 == a8 \o Note("clear_override")
           a10 == a9 \o Note("remove_plist")
           a11 == a10 \o Note("forget")
           a12 == a11 \o Raise("settled?")
           a13 == a12 \o Raise("clean?")
<1>1. /\ Stretch(mode, Raise("account?"), "account?", "account?")
      /\ Stretch(mode, Note("remove_queue"), "remove_queue", "remove_queue")
      /\ Stretch(mode, Note("remove_logs"), "remove_logs", "remove_logs")
      /\ Stretch(mode, Note("remove_root"), "remove_root", "remove_root")
      /\ Stretch(mode, Note("remove_user"), "remove_user", "remove_user")
      /\ Stretch(mode, Note("remove_group"), "remove_group", "remove_group")
      /\ Stretch(mode, Raise("no_blocking?"), "no_blocking?", "no_blocking?")
      /\ Stretch(mode, Note("clear_override"), "clear_override", "clear_override")
      /\ Stretch(mode, Note("remove_plist"), "remove_plist", "remove_plist")
      /\ Stretch(mode, Note("forget"), "forget", "forget")
      /\ Stretch(mode, Raise("settled?"), "settled?", "settled?")
      /\ Stretch(mode, Raise("clean?"), "clean?", "clean?")
  BY Single DEF Does, OnFailure, Modes, Uninstalling, Disabling, Creating,
                Starting, Removal
<1>2. /\ "account?" \in After(mode, "no_failures?")
      /\ "remove_queue" \in After(mode, "account?")
      /\ "remove_logs" \in After(mode, "remove_queue")
      /\ "remove_root" \in After(mode, "remove_logs")
      /\ "remove_user" \in After(mode, "remove_root")
      /\ "remove_group" \in After(mode, "remove_user")
      /\ "no_blocking?" \in After(mode, "remove_group")
      /\ "clear_override" \in After(mode, "no_blocking?")
      /\ "remove_plist" \in After(mode, "clear_override")
      /\ "forget" \in After(mode, "remove_plist")
      /\ "settled?" \in After(mode, "forget")
      /\ "clean?" \in After(mode, "settled?")
  BY Order
<1>3. /\ Stretch(mode, Disable, "hold", "no_failures?")
  BY DisableStretch DEF Modes, Uninstalling
<1>4. RemoveAll = a13
  BY DEF RemoveAll
<1> HIDE DEF a1, a2, a3, a4, a5, a6, a7, a8, a9, a10, a11, a12, a13
<1>5. Stretch(mode, a1, "hold", "no_failures?")
  BY <1>1, <1>3 DEF a1
<1>6. Stretch(mode, a2, "hold", "account?")
  BY <1>1, <1>3, <1>2, <1>5, Join DEF a2
<1>7. Stretch(mode, a3, "hold", "remove_queue")
  BY <1>1, <1>3, <1>2, <1>6, Join DEF a3
<1>8. Stretch(mode, a4, "hold", "remove_logs")
  BY <1>1, <1>3, <1>2, <1>7, Join DEF a4
<1>9. Stretch(mode, a5, "hold", "remove_root")
  BY <1>1, <1>3, <1>2, <1>8, Join DEF a5
<1>10. Stretch(mode, a6, "hold", "remove_user")
  BY <1>1, <1>3, <1>2, <1>9, Join DEF a6
<1>11. Stretch(mode, a7, "hold", "remove_group")
  BY <1>1, <1>3, <1>2, <1>10, Join DEF a7
<1>12. Stretch(mode, a8, "hold", "no_blocking?")
  BY <1>1, <1>3, <1>2, <1>11, Join DEF a8
<1>13. Stretch(mode, a9, "hold", "clear_override")
  BY <1>1, <1>3, <1>2, <1>12, Join DEF a9
<1>14. Stretch(mode, a10, "hold", "remove_plist")
  BY <1>1, <1>3, <1>2, <1>13, Join DEF a10
<1>15. Stretch(mode, a11, "hold", "forget")
  BY <1>1, <1>3, <1>2, <1>14, Join DEF a11
<1>16. Stretch(mode, a12, "hold", "settled?")
  BY <1>1, <1>3, <1>2, <1>15, Join DEF a12
<1>17. Stretch(mode, a13, "hold", "clean?")
  BY <1>1, <1>3, <1>2, <1>16, Join DEF a13
<1> QED
  BY <1>4, <1>17

LEMMA ForgetStretch ==
  ASSUME NEW mode, mode = "forget"
  PROVE  Stretch(mode, ForgetOnly, "clear_override", "clean?")
<1> DEFINE a1 == Note("clear_override")
           a2 == a1 \o Note("forget")
           a3 == a2 \o Raise("settled?")
           a4 == a3 \o Raise("clean?")
<1>1. /\ Stretch(mode, Note("clear_override"), "clear_override", "clear_override")
      /\ Stretch(mode, Note("forget"), "forget", "forget")
      /\ Stretch(mode, Raise("settled?"), "settled?", "settled?")
      /\ Stretch(mode, Raise("clean?"), "clean?", "clean?")
  BY Single DEF Does, OnFailure, Modes, Uninstalling, Disabling, Creating,
                Starting, Removal
<1>2. /\ "forget" \in After(mode, "clear_override")
      /\ "settled?" \in After(mode, "forget")
      /\ "clean?" \in After(mode, "settled?")
  BY Order
<1>3. ForgetOnly = a4
  BY DEF ForgetOnly
<1> HIDE DEF a1, a2, a3, a4
<1>4. Stretch(mode, a1, "clear_override", "clear_override")
  BY <1>1 DEF a1
<1>5. Stretch(mode, a2, "clear_override", "forget")
  BY <1>1, <1>2, <1>4, Join DEF a2
<1>6. Stretch(mode, a3, "clear_override", "settled?")
  BY <1>1, <1>2, <1>5, Join DEF a3
<1>7. Stretch(mode, a4, "clear_override", "clean?")
  BY <1>1, <1>2, <1>6, Join DEF a4
<1> QED
  BY <1>3, <1>7

LEMMA RefusalStretch ==
  ASSUME NEW mode, mode \in {"refuse", "cleanup"}
  PROVE  Stretch(mode, Disable \o Raise("fail"), "hold", "fail")
<1>1. Stretch(mode, Raise("fail"), "fail", "fail")
  BY Single DEF Does, OnFailure, Modes, Uninstalling, Disabling, Removal
<1>2. Stretch(mode, Disable, "hold", "no_failures?")
  BY DisableStretch
<1>3. "fail" \in After(mode, "no_failures?")
  BY Order
<1> QED
  BY <1>1, <1>2, <1>3, Join

LEMMA OneStep ==
  /\ Stretch("decide", Raise("uninstall"), "uninstall", "uninstall")
  /\ Stretch("refuse", Raise("fail"), "fail", "fail")
  /\ Stretch("rest", Raise("clean"), "clean", "clean")
BY Single DEF Does, OnFailure, Modes, Uninstalling, Disabling, Removal

\* The steps ensure_account puts before the directories
LEMMA AccountStretch ==
  ASSUME NEW v, AccountSteps(v) # <<>>
  PROVE  \E first \in Creating \ {"account"},
            last \in {"create_group", "create_user"} :
           Stretch("install", AccountSteps(v), first, last)
<1>1. /\ Stretch("install", Raise("create_user"), "create_user", "create_user")
      /\ Stretch("install", Raise("create_group"), "create_group",
                 "create_group")
      /\ Stretch("install", Ignore("delete_user"), "delete_user", "delete_user")
      /\ Stretch("install", Ignore("delete_group"), "delete_group",
                 "delete_group")
  BY Single DEF Does, OnFailure, Modes, Uninstalling, Disabling, Creating,
                Removal
<1>2. /\ "delete_group" \in After("install", "delete_user")
      /\ "create_group" \in After("install", "delete_group")
      /\ "create_user" \in After("install", "create_group")
  BY Order
<1> DEFINE again == Ignore("delete_user") \o Ignore("delete_group")
           more  == again \o Raise("create_group")
           all   == more \o Raise("create_user")
<1>3. AccountSteps(v) \in {<<>>, Raise("create_user"), Raise("create_group"),
                           all}
  BY DEF AccountSteps
<1> HIDE DEF again, more, all
<1>4. Stretch("install", again, "delete_user", "delete_group")
  BY <1>1, <1>2, Join DEF again
<1>5. Stretch("install", more, "delete_user", "create_group")
  BY <1>1, <1>2, <1>4, Join DEF more
<1>6. Stretch("install", all, "delete_user", "create_user")
  BY <1>1, <1>2, <1>5, Join DEF all
<1> QED
  BY <1>1, <1>3, <1>6 DEF Creating

\* After a step that is not the last one comes one of those that may.
LEMMA Rest ==
  ASSUME NEW mode, NEW steps \in Seq(Steps), steps # <<>>,
         Carries(mode, steps), steps[1].do \notin Final
  PROVE  LET rest == Tail(steps) IN
         /\ rest \in Seq(Steps) /\ rest # <<>> /\ Carries(mode, rest)
         /\ rest[1].do \in After(mode, steps[1].do)
         /\ Belongs(mode, rest[1])
<1> DEFINE rest == Tail(steps)
<1>1. Len(steps) \in Nat /\ Len(steps) # 0
  OBVIOUS
<1>2. Len(steps) # 1
  BY DEF Carries
<1>3. Len(steps) > 1 /\ 2 \in 1..Len(steps) /\ 1 \in 1..Len(steps) - 1
  <2>1. \A n \in Nat : n # 0 /\ n # 1 => n > 1 /\ 2 \in 1..n /\ 1 \in 1..n - 1
    OBVIOUS
  <2> QED
    BY <1>1, <1>2, <2>1
<1>4. /\ rest \in Seq(Steps) /\ Len(rest) = Len(steps) - 1
      /\ \A i \in 1..Len(rest) : rest[i] = steps[i + 1]
  BY <1>3
<1> HIDE DEF rest
<1>5. rest # <<>> /\ rest[1] = steps[2] /\ rest[Len(rest)] = steps[Len(steps)]
  <2>1. Len(rest) \in 1..Len(rest) /\ 1 \in 1..Len(rest)
    BY <1>3, <1>4
  <2>2. Len(rest) + 1 = Len(steps) /\ Len(rest) # 0
    BY <1>3, <1>4
  <2> QED
    BY <1>4, <2>1, <2>2
<1>6. rest[1].do \in After(mode, steps[1].do) /\ Belongs(mode, rest[1])
  BY <1>3, <1>5 DEF Carries
<1>7. \A i \in 1..Len(rest) : Belongs(mode, rest[i])
  <2>1. ASSUME NEW i \in 1..Len(rest)
        PROVE  i + 1 \in 1..Len(steps)
    BY <1>3, <1>4
  <2> QED
    BY <1>4, <2>1 DEF Carries
<1>8. \A i \in 1..Len(rest) - 1 :
        rest[i + 1].do \in After(mode, rest[i].do)
  <2>1. ASSUME NEW i \in 1..Len(rest) - 1
        PROVE  /\ i \in 1..Len(rest) /\ i + 1 \in 1..Len(rest)
               /\ i + 1 \in 1..Len(steps) - 1
    BY <1>3, <1>4
  <2> QED
    BY <1>4, <2>1 DEF Carries
<1>9. Carries(mode, rest)
  BY <1>5, <1>7, <1>8 DEF Carries
<1> QED
  BY <1>4, <1>5, <1>6, <1>9 DEF rest

\* What is carried out to the end is a stretch, and the other way round.
LEMMA ToTheEnd ==
  ASSUME NEW mode, NEW steps, NEW first
  PROVE  /\ \A last \in Final : Stretch(mode, steps, first, last) =>
              /\ steps \in Seq(Steps) /\ steps # <<>>
              /\ steps[1].do = first /\ Carries(mode, steps)
         /\ steps \in Seq(Steps) /\ steps # <<>> /\ Carries(mode, steps)
            /\ steps[1].do = first =>
              \E last \in Final : Stretch(mode, steps, first, last)
BY DEF Stretch, Carries

-----------------------------------------------------------------------------
(* Where the helper is *)

At(mode, do) ==
  /\ mode \in Modes /\ Carries(mode, todo) /\ ModeHolds(mode)
  /\ do = todo[1].do /\ Ready(mode, do)
  /\ do \in Does(mode) /\ todo[1].on = OnFailure(mode, do)
  /\ do \in Dos

LEMMA HelperIsAt ==
  ASSUME TypeOK, HelperHolds, todo # <<>>
  PROVE  \E mode \in Modes : At(mode, Next1)
<1>1. PICK mode \in Modes : /\ Carries(mode, todo) /\ ModeHolds(mode)
                            /\ Ready(mode, todo[1].do)
  BY DEF HelperHolds
<1>2. todo \in Seq(Steps) /\ Len(todo) \in Nat /\ Len(todo) # 0
  BY DEF TypeOK
<1>3. 1 \in 1..Len(todo) /\ todo[1] \in Steps /\ Head(todo) = todo[1]
  BY <1>2
<1>4. Belongs(mode, todo[1]) /\ todo[1].do \in Dos
  BY <1>1, <1>3 DEF Carries, Steps, Dos
<1> QED
  BY <1>1, <1>3, <1>4 DEF At, Belongs, Next1

\* The helper goes on, and is ready for whatever comes next.
LEMMA GoesOn ==
  ASSUME TypeOK, NEW mode, NEW do, todo # <<>>, At(mode, do),
         do \notin Final, todo' = Tail(todo), ModeHolds(mode)',
         \A next \in After(mode, do) : next \in Does(mode) => Ready(mode, next)'
  PROVE  HelperHolds'
<1> DEFINE rest == Tail(todo)
<1>1. todo \in Seq(Steps)
  BY DEF TypeOK
<1>2. /\ rest \in Seq(Steps) /\ rest # <<>> /\ Carries(mode, rest)
      /\ rest[1].do \in After(mode, do) /\ Belongs(mode, rest[1])
  BY <1>1, Rest DEF At
<1>3. todo' = rest
  OBVIOUS
<1> HIDE DEF rest
<1>4. Carries(mode, todo)'
  BY <1>2, <1>3 DEF Carries, Belongs
<1>5. Ready(mode, todo[1].do)'
  <2>1. PICK next : next = rest[1].do
    OBVIOUS
  <2>2. Ready(mode, next)'
    BY <1>2, <2>1 DEF Belongs
  <2>3. next = todo'[1].do
    BY <1>3, <2>1
  <2>4. ReadyToInstall(mode, todo[1].do)'
    BY <2>2, <2>3 DEF Ready, ReadyToInstall
  <2>5. ReadyToDisable(mode, todo[1].do)'
    BY <2>2, <2>3 DEF Ready, ReadyToDisable
  <2>6. ReadyToRemove(mode, todo[1].do)'
    BY <2>2, <2>3 DEF Ready, ReadyToRemove
  <2> QED
    BY <2>4, <2>5, <2>6 DEF Ready
<1>6. mode \in Modes /\ todo' # <<>>
  BY <1>2, <1>3 DEF At
<1> QED
  BY <1>4, <1>5, <1>6 DEF HelperHolds

\* The helper is given a program.
LEMMA IsGiven ==
  ASSUME NEW mode \in Modes, NEW first, NEW last \in Final,
         Stretch(mode, todo', first, last), ModeHolds(mode)',
         Ready(mode, first)'
  PROVE  HelperHolds'
<1>1. /\ todo' \in Seq(Steps) /\ todo' # <<>> /\ todo'[1].do = first
      /\ Carries(mode, todo')
  BY ToTheEnd
<1>2. Carries(mode, todo)'
  BY <1>1 DEF Carries, Belongs
<1>3. Ready(mode, todo[1].do)'
  BY <1>1 DEF Ready, ReadyToInstall, ReadyToDisable, ReadyToRemove
<1> QED
  BY <1>1, <1>2, <1>3 DEF HelperHolds

-----------------------------------------------------------------------------
(* Types *)

States == {"absent", "ours", "torn", "foreign"}

HostTyped(h) ==
  /\ h \in [Artifacts -> States]
  /\ \A a \in Artifacts : h[a] = "torn" => a \in {"app", "user", "group"}

LEMMA WithTyped ==
  ASSUME HostTyped(host), NEW set, NEW state \in States,
         state = "torn" => set \subseteq {"app", "user", "group"}
  PROVE  HostTyped(With(set, state))
BY DEF HostTyped, With

\* What the commands make of the host
LEMMA EffectTyped ==
  ASSUME HostTyped(host), NEW do \in Changing
  PROVE  HostTyped(With(Affected[do], Left(do)))
<1>1. Left(do) \in States /\ (Left(do) = "torn" => do = "copy_app")
  BY DEF Left, States
<1>2. Affected["copy_app"] = {"app"}
  BY DEF Affected
<1> QED
  BY <1>1, <1>2, WithTyped

LEMMA HalfTyped ==
  ASSUME HostTyped(host), NEW do, NEW h \in HalfDone(do)
  PROVE  HostTyped(h)
<1>1. /\ Affected["create_user"] = {"user"}
      /\ Affected["create_group"] = {"group"}
  BY DEF Affected
<1>2. CASE do \in {"create_user", "create_group"}
  <2>1. h = With(Affected[do], "torn")
    BY <1>2 DEF HalfDone
  <2> QED
    BY <1>1, <1>2, <2>1, WithTyped DEF States
<1>3. CASE do = "remove_root"
  <2>1. PICK set \in SUBSET {"marker", "app", "data"} :
          h = With(set, "absent") \/ h = [With(set, "absent") EXCEPT !["app"] = "torn"]
    BY <1>3 DEF HalfDone
  <2>2. HostTyped(With(set, "absent"))
    BY WithTyped DEF States
  <2> QED
    BY <2>1, <2>2 DEF HostTyped, States
<1>4. CASE do \notin {"create_user", "create_group", "remove_root"}
  BY <1>4 DEF HalfDone
<1> QED
  BY <1>2, <1>3, <1>4

\* All programs are programs.
LEMMA ProgramsTyped ==
  /\ InstallSteps \in Seq(Steps) /\ EnableSteps \in Seq(Steps)
  /\ DisableSteps \in Seq(Steps) /\ Raise("uninstall") \in Seq(Steps)
  /\ Disable \o Raise("fail") \in Seq(Steps)
  /\ \A v : UninstallSteps(v) \in Seq(Steps) /\ AccountSteps(v) \in Seq(Steps)
<1>1. /\ InstallSteps \in Seq(Steps) /\ EnableSteps \in Seq(Steps)
      /\ DisableSteps \in Seq(Steps)
  BY InstallStretch, EnableStretch, DisablingStretch DEF Stretch
<1>2. /\ Raise("uninstall") \in Seq(Steps) /\ Raise("fail") \in Seq(Steps)
      /\ Raise("clean") \in Seq(Steps)
  BY OneStep DEF Stretch
<1>3. /\ Disable \o Raise("fail") \in Seq(Steps) /\ RemoveAll \in Seq(Steps)
      /\ ForgetOnly \in Seq(Steps)
  BY RefusalStretch, RemoveStretch, ForgetStretch DEF Stretch
<1>4. ASSUME NEW v
      PROVE  UninstallSteps(v) \in Seq(Steps)
  <2>1. UninstallSteps(v) \in {Disable \o Raise("fail"), Raise("fail"),
                               Raise("clean"), RemoveAll, ForgetOnly}
    BY DEF UninstallSteps
  <2> QED
    BY <1>2, <1>3, <2>1
<1>5. ASSUME NEW v
      PROVE  AccountSteps(v) \in Seq(Steps)
  <2>1. CASE AccountSteps(v) = <<>>
    BY <2>1
  <2>2. CASE AccountSteps(v) # <<>>
    BY <2>2, AccountStretch DEF Stretch
  <2> QED
    BY <2>1, <2>2
<1> QED
  BY <1>1, <1>2, <1>3, <1>4, <1>5

\* What the helper itself is left with
HelperTyped == /\ todo \in Seq(Steps) /\ failures \in BOOLEAN
               /\ op \in Operations \union {"none"}
               /\ clause \in {"body", "started", "cleanup"}
               /\ result \in Results

LEMMA TypeIs ==
  TypeOK <=> /\ HostTyped(host) /\ HelperTyped
             /\ held \in BOOLEAN /\ off \in BOOLEAN /\ loaded \in BOOLEAN
             /\ serving \in BOOLEAN /\ calm \in BOOLEAN /\ runs \in 0..MaxRuns
BY DEF TypeOK, HostTyped, HelperTyped, States

LEMMA FailedTyped ==
  ASSUME HelperTyped, todo # <<>>, Failed
  PROVE  HelperTyped'
<1>1. Tail(todo) \in Seq(Steps)
  BY DEF HelperTyped
<1>2. <<>> \in Seq(Steps)
  OBVIOUS
<1>3. ASSUME NEW with \in Results, End(with)
      PROVE  HelperTyped'
  <2>1. failures' \in BOOLEAN
    BY <1>3 DEF End
  <2> QED
    BY <1>2, <1>3, <2>1 DEF End, HelperTyped
<1>4. CASE Raised
  <2>1. CASE End("incomplete")
    BY <1>3, <2>1 DEF Results
  <2>2. CASE /\ todo' = Disable \o Raise("fail") /\ clause' = "cleanup"
             /\ failures' = FALSE /\ UNCHANGED <<op, result>>
    <3>1. failures' \in BOOLEAN
      BY <2>2
    <3> QED
      BY <2>2, <3>1, ProgramsTyped DEF HelperTyped
  <2> QED
    BY <1>4, <2>1, <2>2 DEF Raised
<1>5. CASE Proceed /\ failures' = TRUE /\ UNCHANGED result
  <2>1. failures' \in BOOLEAN
    BY <1>5
  <2> QED
    BY <1>1, <1>5, <2>1 DEF Proceed, HelperTyped
<1>6. CASE Proceed /\ UNCHANGED <<failures, result>>
  BY <1>1, <1>6 DEF Proceed, HelperTyped
<1>7. Head(todo).on \in {"raise", "note", "ignore"}
  <2>1. Head(todo) \in Steps
    BY DEF HelperTyped
  <2> QED
    BY <2>1 DEF Steps
<1> QED
  BY <1>4, <1>5, <1>6, <1>7 DEF Failed

LEMMA ProceedTyped ==
  ASSUME HelperTyped, todo # <<>>, Proceed, UNCHANGED <<failures, result>>
  PROVE  HelperTyped'
<1>1. Tail(todo) \in Seq(Steps)
  BY DEF HelperTyped
<1> QED
  BY <1>1 DEF Proceed, HelperTyped

LEMMA EndTyped ==
  ASSUME HelperTyped, NEW with \in Results, End(with)
  PROVE  HelperTyped'
<1>1. failures' \in BOOLEAN
  BY DEF End
<1>2. <<>> \in Seq(Steps)
  OBVIOUS
<1> QED
  BY <1>1, <1>2 DEF End, HelperTyped

LEMMA DecideTyped ==
  ASSUME HelperTyped, Decide
  PROVE  HelperTyped'
<1>1. Tail(todo) \in Seq(Steps)
  BY DEF HelperTyped, Decide, Idle
<1>2. CASE /\ Next1 = "uninstall"
           /\ \E v \in Views : todo' = UninstallSteps(v)
           /\ UNCHANGED <<op, clause, failures, result>>
  BY <1>2, ProgramsTyped DEF HelperTyped
<1>3. CASE /\ Next1 = "account"
           /\ \E v \in Views : todo' = AccountSteps(v) \o Tail(todo)
           /\ UNCHANGED <<op, clause, failures, result>>
  <2>1. PICK v \in Views : todo' = AccountSteps(v) \o Tail(todo)
    BY <1>3
  <2>2. AccountSteps(v) \in Seq(Steps)
    BY ProgramsTyped
  <2>3. AccountSteps(v) \o Tail(todo) \in Seq(Steps)
    BY <1>1, <2>2
  <2> QED
    BY <1>3, <2>1, <2>3 DEF HelperTyped
<1>4. CASE /\ todo' = Tail(todo) /\ clause' = "started"
           /\ UNCHANGED <<op, failures, result>>
  BY <1>1, <1>4 DEF HelperTyped
<1>5. CASE Next1 \in {"enabled", "disabled", "clean"} /\ End(Next1)
  BY <1>5, EndTyped DEF Results
<1>6. CASE End("incomplete")
  BY <1>6, EndTyped DEF Results
<1> QED
  BY <1>2, <1>3, <1>4, <1>5, <1>6 DEF Decide

LEMMA StoppedTyped ==
  ASSUME HostTyped(host), HelperTyped, Stopped
  PROVE  HelperTyped' /\ HostTyped(host)'
<1>1. failures' \in BOOLEAN
  BY DEF Stopped
<1>2. <<>> \in Seq(Steps)
  OBVIOUS
<1>3. HelperTyped'
  BY <1>1, <1>2 DEF Stopped, HelperTyped, Results
<1>4. HostTyped(host')
  BY HalfTyped DEF Stopped
<1> QED
  BY <1>3, <1>4 DEF HostTyped

LEMMA TypeInit == Init => TypeOK
<1> SUFFICES ASSUME Init PROVE TypeOK
  OBVIOUS
<1>1. HostTyped(host)
  BY DEF Init, HostTyped, States
<1>2. /\ held \in BOOLEAN /\ off \in BOOLEAN /\ loaded \in BOOLEAN
      /\ serving \in BOOLEAN /\ calm \in BOOLEAN /\ failures \in BOOLEAN
  BY DEF Init
<1>3. runs \in 0..MaxRuns
  BY InstallAssumption DEF Init
<1>4. HelperTyped
  BY <1>2 DEF Init, HelperTyped, Results
<1> QED
  BY <1>1, <1>2, <1>3, <1>4, TypeIs

LEMMA TypeStep == TypeOK /\ [Next]_vars => TypeOK'
<1> SUFFICES ASSUME TypeOK, [Next]_vars PROVE TypeOK'
  OBVIOUS
<1>1. /\ HostTyped(host) /\ HelperTyped
      /\ held \in BOOLEAN /\ off \in BOOLEAN /\ loaded \in BOOLEAN
      /\ serving \in BOOLEAN /\ calm \in BOOLEAN /\ runs \in 0..MaxRuns
  BY TypeIs
<1> DEFINE Machine == /\ held' \in BOOLEAN /\ off' \in BOOLEAN
                      /\ loaded' \in BOOLEAN /\ serving' \in BOOLEAN
           Rest3   == calm' \in BOOLEAN /\ runs' \in 0..MaxRuns
<1>2. ASSUME HostTyped(host'), HelperTyped', Machine, Rest3
      PROVE  TypeOK'
  BY <1>2 DEF TypeOK, HostTyped, HelperTyped, States
<1>3. CASE Begin
  <2>1. runs' \in 0..MaxRuns
    BY <1>1, <1>3, InstallAssumption DEF Begin
  <2>2. failures' \in BOOLEAN
    BY <1>3 DEF Begin
  <2>3. todo' \in Seq(Steps) /\ op' \in Operations
    <3>1. PICK o \in IF calm THEN {Again} ELSE Operations :
            /\ op' = o
            /\ todo' = CASE o = "install" -> InstallSteps
                         [] o = "enable"  -> EnableSteps
                         [] o = "disable" -> DisableSteps
                         [] o = "uninstall" -> Raise("uninstall")
      BY <1>3 DEF Begin
    <3>2. o \in Operations /\ o \in {"install", "disable", "enable", "uninstall"}
      BY <3>1, InstallAssumption
    <3> QED
      BY <3>1, <3>2, ProgramsTyped
  <2>4. HelperTyped'
    BY <1>3, <2>2, <2>3 DEF Begin, HelperTyped, Results
  <2> QED
    BY <1>1, <1>2, <1>3, <2>1, <2>4 DEF Begin, machine
<1>4. CASE RunCommand
  <2>1. Machine
    BY <1>1, <1>4 DEF RunCommand, Effect
  <2>2. HostTyped(host')
    BY <1>1, <1>4, EffectTyped DEF RunCommand, Effect
  <2>3. HelperTyped'
    BY <1>1, <1>4, ProceedTyped DEF RunCommand, Idle
  <2> QED
    BY <1>1, <1>2, <1>4, <2>1, <2>2, <2>3 DEF RunCommand
<1>5. CASE SkipCommand
  <2>1. HelperTyped'
    BY <1>1, <1>5, ProceedTyped DEF SkipCommand, Idle
  <2> QED
    BY <1>1, <1>2, <1>5, <2>1 DEF SkipCommand, machine
<1>6. CASE CommandFails
  <2>1. HelperTyped'
    BY <1>1, <1>6, FailedTyped DEF CommandFails, Idle
  <2>2. HostTyped(host')
    BY <1>1, <1>6, HalfTyped DEF CommandFails
  <2> QED
    BY <1>1, <1>2, <1>6, <2>1, <2>2 DEF CommandFails
<1>7. CASE Ask
  <2>1. PICK v \in Views :
          /\ IF Next1 \in {"settled?", "clean?"}
               THEN Settle(Answers(Next1, v)) ELSE UNCHANGED off
          /\ IF ~Answers(Next1, v) THEN Failed
             ELSE IF Next1 = "clean?" THEN End("clean")
             ELSE Proceed /\ UNCHANGED <<failures, result>>
    BY <1>7 DEF Ask
  <2>2. PICK ok : ok = Answers(Next1, v)
    OBVIOUS
  <2>3. off' \in BOOLEAN
    BY <1>1, <2>1 DEF Settle
  <2>4. HelperTyped'
    BY <1>1, <1>7, <2>1, FailedTyped, EndTyped, ProceedTyped
       DEF Ask, Idle, Results
  <2> QED
    BY <1>1, <1>2, <1>7, <2>3, <2>4 DEF Ask
<1>8. CASE Decide
  BY <1>1, <1>2, <1>8, DecideTyped DEF Decide, machine
<1>9. CASE Kill
  BY <1>1, <1>2, <1>9, StoppedTyped DEF Kill, HostTyped
<1>10. CASE Reboot
  <2>1. HelperTyped' /\ HostTyped(host')
    <3>1. CASE Stopped
      BY <1>1, <3>1, StoppedTyped DEF HostTyped
    <3>2. CASE UNCHANGED <<host, helper, result>>
      BY <1>1, <3>2 DEF HelperTyped, HostTyped, helper
    <3> QED
      BY <1>10, <3>1, <3>2 DEF Reboot
  <2>2. loaded' \in BOOLEAN /\ serving' \in BOOLEAN
    BY <1>10 DEF Reboot
  <2> QED
    BY <1>1, <1>2, <1>10, <2>1, <2>2 DEF Reboot
<1>11. CASE ServiceUp \/ ServiceDown
  <2>1. serving' \in BOOLEAN
    BY <1>11 DEF ServiceUp, ServiceDown
  <2>2. HelperTyped'
    BY <1>1, <1>11 DEF ServiceUp, ServiceDown, HelperTyped, helper
  <2> QED
    BY <1>1, <1>2, <1>11, <2>1, <2>2 DEF ServiceUp, ServiceDown
<1>12. CASE BecomeCalm
  <2>1. calm' \in BOOLEAN
    BY <1>12 DEF BecomeCalm
  <2>2. HelperTyped'
    BY <1>1, <1>12 DEF BecomeCalm, HelperTyped, helper
  <2> QED
    BY <1>1, <1>2, <1>12, <2>1, <2>2 DEF BecomeCalm, machine
<1>13. CASE UNCHANGED vars
  <2>1. HelperTyped'
    BY <1>1, <1>13 DEF vars, HelperTyped, helper
  <2> QED
    BY <1>1, <1>2, <1>13, <2>1 DEF vars, machine
<1> QED
  BY <1>3, <1>4, <1>5, <1>6, <1>7, <1>8, <1>9, <1>10, <1>11, <1>12, <1>13
     DEF Next, Helper

\* The model's variables keep their types, whatever fails and whatever a
\* question fails to see: the helper always has a program, and only creations
\* that are several commands are left half done (personal_install.py:333-395,
\* 512-528).
THEOREM TypeCorrect == Spec => []TypeOK
BY TypeInit, TypeStep, PTL DEF Spec

-----------------------------------------------------------------------------
(* The host *)

\* A view of the host is the host, when every question is answered.
LEMMA Seen ==
  ASSUME TypeOK, Hearing
  PROVE  Views = {host}
<1> DEFINE view(hidden) ==
             [a \in Artifacts |-> IF a \in hidden THEN "absent" ELSE host[a]]
<1>1. SUBSET (IF calm THEN {} ELSE Deaf) = {{}}
  BY DEF Hearing
<1>2. view({}) = host
  BY DEF TypeOK
<1>3. Views = { view(hidden) : hidden \in SUBSET (IF calm THEN {} ELSE Deaf) }
  BY DEF Views
<1> HIDE DEF view
<1> QED
  BY <1>1, <1>2, <1>3

\* HostHolds of any host
HostIs(h, up) ==
  /\ up => \A a \in {"app", "data", "user", "group"} : h[a] = "ours"
  /\ h["data"] = "ours" => h["root"] # "absent"
  /\ (\E a \in Artifacts : h[a] = "foreign") =>
       \A a \in Artifacts \ {"receipt"} : h[a] # "ours" /\ h[a] # "torn"
  /\ h["receipt"] \in {"absent", "ours"}

LEMMA HostIsHolds ==
  HostHolds <=> HostIs(host, serving)
BY DEF HostHolds, HostIs, Whole, Ours, There, ForeignFound

LEMMA Table ==
  /\ \A do \in {"make_root"} : Affected[do] = {"root"}
  /\ \A do \in {"copy_app", "own_app"} : Affected[do] = {"app"}
  /\ \A do \in {"make_marker"} : Affected[do] = {"marker"}
  /\ \A do \in {"make_plist", "remove_plist"} : Affected[do] = {"plist"}
  /\ \A do \in {"make_paths"} : Affected[do] = {"root", "data", "logs"}
  /\ \A do \in {"create_user", "delete_user", "remove_user"} :
       Affected[do] = {"user"}
  /\ \A do \in {"create_group", "delete_group", "remove_group"} :
       Affected[do] = {"group"}
  /\ \A do \in {"make_queue", "remove_queue"} : Affected[do] = {"queue"}
  /\ \A do \in {"remove_logs"} : Affected[do] = {"logs"}
  /\ \A do \in {"remove_root"} :
       Affected[do] = {"root", "marker", "app", "data"}
  /\ \A do \in {"forget"} : Affected[do] = {"receipt"}
BY DEF Affected

LEMMA LeftIs ==
  /\ \A do \in Removing : Left(do) = "absent"
  /\ Left("copy_app") = "torn"
  /\ \A do \in Changing \ (Removing \union {"copy_app"}) : Left(do) = "ours"
BY DEF Left, Removing

LEMMA WithIs ==
  ASSUME NEW set, NEW state
  PROVE  \A a \in Artifacts :
           With(set, state)[a] = IF a \in set THEN state ELSE host[a]
BY DEF With

\* Artifacts are changed when nothing is anybody else's, and those the service
\* runs on are not taken away from it.
LEMMA CommandMay ==
  ASSUME NEW mode, NEW do \in Changing, At(mode, do)
  PROVE  /\ do # "forget" => Clear
         /\ do = "copy_app" => ~Ours(host, "app")
         /\ do \in {"create_user", "create_group", "delete_user",
                    "delete_group", "remove_root", "remove_user",
                    "remove_group"} => Quiet
<1>1. do \in Does(mode) /\ mode \in Modes /\ Ready(mode, do)
  BY DEF At
<1>2. do # "forget" => mode \in {"install", "enable", "remove"}
  BY <1>1 DEF Does, Changing, Modes, Uninstalling, Disabling
<1>3. do \in {"remove_root", "remove_user", "remove_group"} => mode = "remove"
  BY <1>1 DEF Does, Modes, Uninstalling, Disabling, Creating, Starting
<1>4. do \notin {"may_install?", "ours?"}
  BY DEF Changing
<1>5. do # "forget" => Clear
  BY <1>1, <1>2, <1>4 DEF Ready, ReadyToInstall
<1>6. do = "copy_app" => ~Ours(host, "app")
  BY <1>1 DEF Ready, ReadyToInstall
<1>7. do \in {"create_user", "create_group", "delete_user", "delete_group"} =>
        Quiet
  BY <1>1 DEF Ready, ReadyToInstall, Creating
<1>8. do \in {"remove_root", "remove_user", "remove_group"} => Quiet
  BY <1>1, <1>3 DEF Ready, ReadyToRemove, Disabling
<1> QED
  BY <1>5, <1>6, <1>7, <1>8

LEMMA CommandHost ==
  ASSUME TypeOK, HostHolds, NEW mode, NEW do \in Changing, At(mode, do)
  PROVE  /\ HostIs(With(Affected[do], Left(do)), serving)
         /\ \A a \in Artifacts :
              host[a] = "foreign" => With(Affected[do], Left(do))[a] = "foreign"
<1> DEFINE h == With(Affected[do], Left(do))
<1>1. \A a \in Artifacts : h[a] = IF a \in Affected[do] THEN Left(do) ELSE host[a]
  BY WithIs
<1>2. HostIs(host, serving)
  BY HostIsHolds
<1>3. {"root", "marker", "data", "logs", "app", "plist", "queue", "user",
       "group", "receipt"} = Artifacts
  BY DEF Artifacts
<1>4. do \in Removing \/ do = "copy_app"
      \/ do \in {"make_root", "own_app", "make_marker", "make_plist",
                 "make_paths", "create_user", "create_group", "make_queue"}
  BY DEF Changing, Removing
<1>5. Left(do) \in {"absent", "ours", "torn"}
  BY <1>4, LeftIs DEF Removing
<1> HIDE DEF h
<1>6. CASE do = "forget"
  <2>1. Affected[do] = {"receipt"} /\ Left(do) = "absent"
    BY <1>6, Table, LeftIs DEF Removing
  <2>2. h["receipt"] = "absent"
        /\ \A a \in Artifacts \ {"receipt"} : h[a] = host[a]
    BY <1>1, <1>3, <2>1
  <2>3. host["receipt"] # "foreign"
    BY <1>2 DEF HostIs
  <2>4. \A a \in Artifacts : host[a] = "foreign" <=> h[a] = "foreign"
    BY <2>2, <2>3
  <2>5. HostIs(h, serving)
    BY <1>2, <1>3, <2>2, <2>4 DEF HostIs
  <2> QED
    BY <2>4, <2>5 DEF h
<1>7. CASE do # "forget"
  <2>1. \A a \in Artifacts : host[a] # "foreign" /\ h[a] # "foreign"
    BY <1>1, <1>5, <1>7, CommandMay DEF Clear, ForeignFound
  <2>2. Affected[do] \subseteq Artifacts \ {"receipt"}
    BY <1>3, <1>4, <1>7, Table DEF Removing
  <2>3. h["receipt"] \in {"absent", "ours"}
    BY <1>1, <1>2, <1>3, <2>2 DEF HostIs
  <2>4. h["data"] = "ours" => h["root"] # "absent"
    <3>1. CASE do \in {"make_root", "make_paths"}
      BY <1>1, <1>3, <3>1, Table, LeftIs DEF Removing, Changing
    <3>2. CASE do = "remove_root"
      BY <1>1, <1>3, <3>2, Table, LeftIs DEF Removing
    <3>3. CASE do \notin {"make_root", "make_paths", "remove_root"}
      <4>1. Affected[do] \intersect {"data", "root"} = {}
        BY <1>4, <1>7, <3>3, Table DEF Removing
      <4> QED
        BY <1>1, <1>2, <1>3, <4>1 DEF HostIs
    <3> QED
      BY <3>1, <3>2, <3>3
  <2>5. ASSUME serving, NEW a \in {"app", "data", "user", "group"}
        PROVE  h[a] = "ours"
    <3>1. a \in Artifacts /\ host[a] = "ours"
      BY <1>2, <1>3, <2>5 DEF HostIs
    <3>2. ~Quiet /\ do # "copy_app"
      BY <1>2, <2>5, CommandMay DEF HostIs, Quiet, Ours
    <3>3. CASE do \in {"make_root", "own_app", "make_marker", "make_plist",
                       "make_paths", "create_user", "create_group",
                       "make_queue"}
      BY <1>1, <3>1, <3>3, LeftIs DEF Removing
    <3>4. CASE do \in {"remove_queue", "remove_logs", "remove_plist"}
      BY <1>1, <3>1, <3>4, Table
    <3> QED
      BY <1>4, <1>7, <3>2, <3>3, <3>4, CommandMay DEF Removing
  <2>6. HostIs(h, serving)
    BY <2>1, <2>3, <2>4, <2>5 DEF HostIs
  <2> QED
    BY <2>1, <2>6 DEF h
<1> QED
  BY <1>6, <1>7

\* A command that is left half done has made nothing foreign or whole.
LeavesHalf(h) ==
  \A a \in Artifacts :
    /\ h[a] \in {host[a], "absent", "torn"}
    /\ a \in {"receipt", "root"} => h[a] = host[a]

\* A removal of the root that has stopped, in the middle of the app or not
LEMMA HalfRemoved ==
  ASSUME NEW h \in HalfDone("remove_root")
  PROVE  \A a \in Artifacts :
           /\ h[a] \in {host[a], "absent"} \/ (a = "app" /\ h[a] = "torn")
           /\ h[a] # host[a] => a \in {"marker", "app", "data"}
<1>1. PICK set \in SUBSET {"marker", "app", "data"} :
        h = With(set, "absent") \/ h = [With(set, "absent") EXCEPT !["app"] = "torn"]
  BY DEF HalfDone
<1>2. \A a \in Artifacts :
        With(set, "absent")[a] = IF a \in set THEN "absent" ELSE host[a]
  BY WithIs
<1>3. CASE h = With(set, "absent")
  BY <1>1, <1>3, <1>2
<1>4. CASE h = [With(set, "absent") EXCEPT !["app"] = "torn"]
  <2>1. \A a \in Artifacts :
          h[a] = IF a = "app" THEN "torn" ELSE With(set, "absent")[a]
    BY <1>4 DEF With
  <2> QED
    BY <1>1, <1>2, <2>1 DEF Artifacts
<1> QED
  BY <1>1, <1>3, <1>4

\* The same for a command that is left half done
LEMMA HalfHost ==
  ASSUME TypeOK, HostHolds, NEW mode, NEW do, At(mode, do),
         NEW h \in HalfDone(do)
  PROVE  /\ HostIs(h, serving) /\ Quiet /\ Clear
         /\ \A a \in Artifacts : h[a] # "foreign"
         /\ do \in {"create_user", "create_group", "remove_root"}
<1>1. do \in {"create_user", "create_group", "remove_root"}
  BY DEF HalfDone
<1>2. Quiet /\ Clear
  BY <1>1, CommandMay DEF Changing
<1>3. \A a \in Artifacts : host[a] # "foreign"
  BY <1>2 DEF Clear, ForeignFound
<1>4. HostIs(host, serving) /\ ~serving
  BY <1>2, HostIsHolds DEF Quiet
<1>5. ASSUME do \in {"create_user", "create_group"} PROVE LeavesHalf(h)
  <2>1. h = With(Affected[do], "torn")
    BY <1>5 DEF HalfDone
  <2>2. "receipt" \notin Affected[do] /\ "root" \notin Affected[do]
    BY <1>5, Table
  <2> QED
    BY <2>1, <2>2, WithIs DEF LeavesHalf
<1>6. ASSUME do = "remove_root" PROVE LeavesHalf(h)
  BY <1>6, HalfRemoved DEF LeavesHalf
<1>7. LeavesHalf(h)
  BY <1>1, <1>5, <1>6
<1>8. {"data", "root", "receipt"} \subseteq Artifacts
  BY DEF Artifacts
<1>9. h["receipt"] \in {"absent", "ours"} /\ h["root"] = host["root"]
      /\ (h["data"] = "ours" => host["data"] = "ours")
      /\ \A a \in Artifacts : h[a] # "foreign"
  BY <1>3, <1>4, <1>7, <1>8 DEF HostIs, LeavesHalf
<1>10. HostIs(h, serving)
  BY <1>4, <1>9 DEF HostIs
<1> QED
  BY <1>1, <1>2, <1>9, <1>10

-----------------------------------------------------------------------------
(* From one step to the next *)

\* What comes before a step
LEMMA Before ==
  ASSUME NEW mode \in Modes, NEW do \in Does(mode),
         NEW next \in After(mode, do), next \in Does(mode)
  PROVE  /\ next \notin {"may_install?", "ours?", "clean", "uninstall"}
         /\ next = "make_root" => do = "may_install?"
         /\ next = "copy_app" => do = "make_root"
         /\ next \in Creating => do \in Creating \union {"no_failures?"}
         /\ next = "override" => do = "held?"
         /\ next \in BelowOverride /\ mode \notin {"install", "enable"} =>
              do \in BelowOverride \union {"override"}
         /\ next = "silent?" => do = "unloaded?"
         /\ next = "overridden?" => do = "silent?"
         /\ next = "no_failures?" => do = "overridden?"
         /\ next = "disabled" => do = "no_failures?"
         /\ next = "fail" => do = "no_failures?" /\ mode \in {"cleanup", "refuse"}
         /\ mode = "remove" /\ next \notin Disabling \union {"bootout"} =>
              do \notin Disabling \union {"bootout"} \/ do = "no_failures?"
         /\ mode \in {"remove", "forget"} /\ next = "clear_override" =>
              mode = "remove" /\ do = "no_blocking?"
         /\ next = "remove_plist" => do = "clear_override" /\ mode = "remove"
         /\ next = "forget" => \/ do = "remove_plist" /\ mode = "remove"
                               \/ do = "clear_override" /\ mode = "forget"
BY DEF After, Does, Modes, Uninstalling, Disabling, Creating, Starting, Removal,
       BelowOverride

\* What a step may not undo
Keeps(do) ==
  /\ \A a \in Artifacts : host'[a] = "foreign" => host[a] = "foreign"
  /\ do # "bootstrap" => (Quiet => Quiet')
  /\ failures => failures'
  /\ do \in Disabling \union {"bootout"} =>
       host' = host /\ (do # "hold" => held' = held)
  /\ do \in BelowOverride => (off => off')
  /\ do \in {"silent?", "overridden?"} =>
       loaded' = loaded /\ (serving' => serving)

\* What a step has to reach
Reaches(mode, do) ==
  /\ do \in {"may_install?", "ours?"} => Clear'
  /\ do \in {"may_install?", "make_root"} => host'["app"] # "ours"
  /\ do = "held?" => failures' \/ (host'["queue"] = "ours" => held')
  /\ do = "override" => (Heeded => off')
  /\ do = "unloaded?" => failures' \/ ~loaded'
  /\ do = "silent?" => failures' \/ ~serving'
  /\ do = "overridden?" => failures' \/ off'
  /\ do = "no_failures?" =>
       ~failures /\ UNCHANGED <<host, held, off, loaded, failures>>
       /\ (serving' => serving)
  /\ do = "no_blocking?" => /\ \A a \in Artifacts \ {"plist", "receipt"} :
                                  host'[a] = "absent"
                            /\ ~failures'
  /\ do = "clear_override" => (failures' \/ ~off') /\ host' = host
  /\ do = "remove_plist" =>
       \/ failures'
       \/ /\ host' = With({"plist"}, "absent") /\ off' = off /\ ~failures

LEMMA RemainsIn ==
  ASSUME NEW set
  PROVE  Remains \subseteq set <=> \A a \in Artifacts \ set : host[a] = "absent"
BY DEF Remains, There

LEMMA IsReady ==
  ASSUME NEW mode, NEW do, At(mode, do), Keeps(do), Reaches(mode, do),
         NEW next \in After(mode, do), next \in Does(mode)
  PROVE  Ready(mode, next)'
<1>1. mode \in Modes /\ do \in Does(mode) /\ Ready(mode, do)
  BY DEF At
<1>2. {"app", "queue", "plist", "receipt"} \subseteq Artifacts
  BY DEF Artifacts
<1>3. Clear => Clear'
  BY DEF Keeps, Clear, ForeignFound
<1>4. ReadyToInstall(mode, next)'
  <2>1. mode \in {"install", "enable", "remove"} => Clear'
    BY <1>1, <1>3 DEF Ready, ReadyToInstall, Reaches
  <2>2. next \in {"make_root", "copy_app"} => ~Ours(host, "app")'
    BY <1>1, Before DEF Reaches, Ours
  <2>3. next \in Creating => Quiet'
    <3>1. CASE do \in Creating
      BY <1>1, <3>1 DEF Ready, ReadyToInstall, Keeps, Creating
    <3>2. CASE do = "no_failures?"
      BY <1>1, <3>2 DEF Ready, ReadyToDisable, Reaches, Quiet
    <3> QED
      BY <1>1, <3>1, <3>2, Before
  <2> QED
    BY <2>1, <2>2, <2>3 DEF ReadyToInstall
<1>5. ReadyToDisable(mode, next)'
  <2>1. mode = "disable" /\ next \in BelowOverride \union {"override"} =>
          failures' \/ (Ours(host, "queue") => held)'
    <3>1. CASE next = "override"
      BY <1>1, <3>1, Before DEF Reaches, Ours
    <3>2. CASE next \in BelowOverride /\ mode = "disable"
      <4>1. do \in BelowOverride \union {"override"}
        BY <1>1, <3>2, Before
      <4>2. do \in Disabling \union {"bootout"} /\ do # "hold"
        BY <1>1, <3>2, <4>1
           DEF BelowOverride, Does, Removal, Disabling
      <4>3. failures \/ (Ours(host, "queue") => held)
        BY <1>1, <3>2, <4>1 DEF Ready, ReadyToDisable
      <4> QED
        BY <4>2, <4>3 DEF Keeps, Ours
    <3> QED
      BY <3>1, <3>2
  <2>2. Heeded /\ mode \notin {"install", "enable"} /\ next \in BelowOverride =>
          off'
    BY <1>1, Before DEF Ready, ReadyToDisable, Keeps, Reaches
  <2>3. next \in {"silent?", "overridden?", "no_failures?"} =>
          failures' \/ ~loaded'
    BY <1>1, Before DEF Ready, ReadyToDisable, Keeps, Reaches
  <2>4. next \in {"overridden?", "no_failures?"} => failures' \/ ~serving'
    BY <1>1, Before DEF Ready, ReadyToDisable, Keeps, Reaches
  <2>5. next = "no_failures?" => failures' \/ off'
    BY <1>1, Before DEF Reaches
  <2>6. next = "disabled" =>
          Quiet' /\ off' /\ (Ours(host, "queue") => held)'
    <3>1. next = "disabled" => do = "no_failures?" /\ mode = "disable"
      BY <1>1, Before DEF Does, Modes, Uninstalling, Disabling, Creating,
                          Starting, Removal
    <3>2. do = "no_failures?" /\ mode = "disable" =>
            Quiet /\ off /\ (Ours(host, "queue") => held)
      BY <1>1 DEF Ready, ReadyToDisable, Reaches, Quiet, BelowOverride
    <3> QED
      BY <3>1, <3>2 DEF Reaches, Quiet, Ours
  <2>7. Heeded /\ next = "fail" => ~Startable'
    <3>1. Heeded /\ next = "fail" => off
      BY <1>1, Before DEF Ready, ReadyToDisable, BelowOverride
    <3>2. next = "fail" => off' = off
      BY <1>1, Before DEF Reaches
    <3> QED
      BY <3>1, <3>2 DEF Startable
  <2> QED
    BY <2>1, <2>2, <2>3, <2>4, <2>5, <2>6, <2>7 DEF ReadyToDisable
<1>6. ReadyToRemove(mode, next)'
  <2>1. mode = "remove" /\ next \notin Disabling \union {"bootout"} => Quiet'
    <3>1. CASE mode = "remove" /\ do \notin Disabling \union {"bootout"}
      <4>1. do # "bootstrap"
        BY <1>1, <3>1 DEF Does, Disabling, Removal
      <4> QED
        BY <1>1, <3>1, <4>1 DEF Ready, ReadyToRemove, Keeps
    <3>2. CASE do = "no_failures?"
      BY <1>1, <3>2 DEF Ready, ReadyToDisable, Reaches, Quiet
    <3> QED
      BY <1>1, <3>1, <3>2, Before
  <2>2. (mode = "remove" /\ next \in {"clear_override", "remove_plist"}) =>
          \A a \in Artifacts \ {"plist", "receipt"} : host'[a] = "absent"
    <3>1. CASE do = "no_blocking?"
      BY <3>1 DEF Reaches
    <3>2. CASE do = "clear_override" /\ mode = "remove"
      BY <1>1, <3>2, RemainsIn DEF Ready, ReadyToRemove, Reaches
    <3> QED
      BY <1>1, <3>1, <3>2, Before
  <2>3. mode \in {"remove", "forget"} /\ next = "clear_override" => ~failures'
    BY <1>1, Before DEF Reaches
  <2>4. mode = "forget" /\ next \in {"clear_override", "forget"} =>
          \A a \in Artifacts \ {"receipt"} : host'[a] = "absent"
    <3>1. CASE do = "clear_override" /\ mode = "forget"
      BY <1>1, <3>1, RemainsIn DEF Ready, ReadyToRemove, Reaches
    <3> QED
      BY <1>1, <3>1, Before
  <2>5. next = "remove_plist" => failures' \/ ~off'
    BY <1>1, Before DEF Reaches
  <2>6. next = "forget" =>
          failures' \/ ((\A a \in Artifacts \ {"receipt"} : host'[a] = "absent")
                        /\ ~off')
    <3>1. CASE do = "remove_plist" /\ mode = "remove"
      <4>1. \A a \in Artifacts \ {"plist", "receipt"} : host[a] = "absent"
        BY <1>1, <3>1, RemainsIn DEF Ready, ReadyToRemove
      <4>2. failures \/ ~off
        BY <1>1, <3>1 DEF Ready, ReadyToRemove
      <4>3. host' = With({"plist"}, "absent") =>
              \A a \in Artifacts \ {"receipt"} : host'[a] = "absent"
        BY <4>1, WithIs
      <4> QED
        BY <3>1, <4>2, <4>3 DEF Reaches
    <3>2. CASE do = "clear_override" /\ mode = "forget"
      BY <1>1, <3>2, RemainsIn DEF Ready, ReadyToRemove, Reaches
    <3> QED
      BY <1>1, <3>1, <3>2, Before
  <2>7. next \notin {"clean", "uninstall"}
    BY <1>1, Before
  <2> QED
    BY <2>1, <2>2, <2>3, <2>4, <2>5, <2>6, <2>7
       DEF ReadyToRemove, Remains, There
<1> QED
  BY <1>4, <1>5, <1>6 DEF Ready

-----------------------------------------------------------------------------
(* The commands *)

\* Nothing is reported while the helper runs.
LEMMA NoReport ==
  /\ ReportHolds /\ todo # <<>> => result = "none"
  /\ result' = "none" => ReportHolds'
<1>1. ReportHolds /\ todo # <<>> => result = "none"
  BY DEF ReportHolds
<1>2. result' = "none" => ReportHolds'
  BY DEF ReportHolds, CleanIsTrue, DisabledIsTrue
<1> QED
  BY <1>1, <1>2

LEMMA RunReaches ==
  ASSUME TypeOK, HostHolds, NEW mode, At(mode, Next1), RunCommand
  PROVE  Keeps(Next1) /\ Reaches(mode, Next1)
<1> DEFINE do == Next1
<1>1. /\ do \in Commands /\ Due(do) /\ At(mode, do) /\ Effect(do)
      /\ UNCHANGED <<serving, failures, result, runs, calm>>
  BY DEF RunCommand
<1> HIDE DEF do
<1>2. do \in Changing \union {"hold", "override", "bootout", "clear_override",
                             "bootstrap", "release"}
  BY <1>1 DEF Commands
<1>3. /\ do \notin Disabling \ {"hold", "override"}
      /\ do \notin {"may_install?", "ours?", "held?", "unloaded?", "silent?",
                    "overridden?", "no_failures?", "no_blocking?"}
  BY <1>2 DEF Changing, Disabling
<1>4. do \notin Changing => host' = host
  BY <1>1 DEF Effect
<1>5. do \in Changing => host' = With(Affected[do], Left(do))
  BY <1>1 DEF Effect
<1>6. Keeps(do)
  <2>1. \A a \in Artifacts : host'[a] = "foreign" => host[a] = "foreign"
    <3>1. CASE do \notin Changing
      BY <1>4, <3>1
    <3>2. CASE do \in Changing
      <4>1. Left(do) # "foreign"
        BY DEF Left
      <4> QED
        BY <1>5, <3>2, <4>1, WithIs
    <3> QED
      BY <3>1, <3>2
  <2>2. do # "bootstrap" => (Quiet => Quiet')
    BY <1>1 DEF Effect, Quiet
  <2>3. do \in Disabling \union {"bootout"} =>
          host' = host /\ (do # "hold" => held' = held)
    BY <1>1, <1>3, <1>4 DEF Effect, Changing
  <2>4. do \in BelowOverride => (off => off')
    BY <1>1 DEF Effect, BelowOverride, Removal
  <2> QED
    BY <1>1, <1>3, <2>1, <2>2, <2>3, <2>4 DEF Keeps
<1>7. Reaches(mode, do)
  <2>1. do = "make_root" => host'["app"] # "ours"
    <3>1. ASSUME do = "make_root" PROVE host'["app"] = host["app"]
      <4>1. "app" \in Artifacts /\ do \in Changing /\ Affected[do] = {"root"}
        BY <3>1, Table DEF Artifacts, Changing
      <4> QED
        BY <1>5, <4>1, WithIs
    <3>2. do = "make_root" => host["app"] # "ours"
      BY <1>1 DEF At, Ready, ReadyToInstall, Ours
    <3> QED
      BY <3>1, <3>2
  <2>2. do = "override" => off'
    BY <1>1 DEF Effect
  <2>3. do = "clear_override" => ~off' /\ host' = host
    BY <1>1, <1>4 DEF Effect, Changing
  <2>4. do = "remove_plist" =>
          host' = With({"plist"}, "absent") /\ off' = off /\ ~failures
    BY <1>1, <1>5, Table, LeftIs DEF Effect, Changing, Due, Removing
  <2> QED
    BY <1>3, <2>1, <2>2, <2>3, <2>4 DEF Reaches
<1> QED
  BY <1>6, <1>7 DEF do

LEMMA CommandsGoOn ==
  ASSUME NEW do \in Commands
  PROVE  do \notin Final /\ do \notin Decisions /\ do \notin Questions
BY DEF Commands, Changing, Final, Decisions, Questions

LEMMA RunHolds ==
  ASSUME Inv, RunCommand
  PROVE  HostHolds' /\ ReportHolds' /\ HelperHolds'
<1>1. TypeOK /\ HostHolds /\ todo # <<>>
  BY DEF Inv, RunCommand, Idle
<1>2. PICK mode \in Modes : At(mode, Next1)
  BY <1>1, HelperIsAt DEF Inv
<1>3. HostHolds'
  <2>1. HostIs(host', serving')
    <3>1. CASE Next1 \in Changing
      BY <1>1, <1>2, <3>1, CommandHost DEF RunCommand, Effect
    <3>2. CASE Next1 \notin Changing
      BY <1>1, <3>2, HostIsHolds DEF RunCommand, Effect
    <3> QED
      BY <3>1, <3>2
  <2> QED
    BY <2>1 DEF HostHolds, HostIs, Whole, Ours, There, ForeignFound
<1>4. ReportHolds'
  BY <1>1, NoReport DEF Inv, RunCommand
<1>5. HelperHolds'
  <2>1. Next1 \in Commands
    BY DEF RunCommand
  <2>2. Keeps(Next1) /\ Reaches(mode, Next1)
    BY <1>1, <1>2, RunReaches
  <2>3. todo' = Tail(todo) /\ op' = op /\ clause' = clause
    BY DEF RunCommand, Proceed
  <2>4. ModeHolds(mode)'
    BY <1>2, <2>3 DEF At, ModeHolds
  <2> QED
    BY <1>1, <1>2, <2>1, <2>2, <2>3, <2>4, CommandsGoOn, GoesOn, IsReady
<1> QED
  BY <1>3, <1>4, <1>5

LEMMA SkipHolds ==
  ASSUME Inv, Hearing, SkipCommand
  PROVE  HostHolds' /\ ReportHolds' /\ HelperHolds'
<1>1. TypeOK /\ HostHolds /\ todo # <<>> /\ Next1 \in Commands
  BY DEF Inv, SkipCommand, Idle
<1>2. PICK mode \in Modes : At(mode, Next1)
  BY <1>1, HelperIsAt DEF Inv
<1>3. /\ ~Due(Next1) /\ UNCHANGED <<host, held, off, loaded, serving>>
      /\ UNCHANGED <<failures, result>>
  BY DEF SkipCommand, Overlooked, Hearing, machine
<1>4. HostHolds'
  BY <1>1, <1>3 DEF HostHolds, Whole, Ours, There, ForeignFound
<1>5. ReportHolds'
  BY <1>1, <1>3, NoReport DEF Inv
<1>6. HelperHolds'
  <2>1. Next1 \notin {"may_install?", "ours?", "held?", "unloaded?", "silent?",
                      "overridden?", "no_failures?", "no_blocking?"}
    BY <1>1 DEF Commands, Changing
  <2>2. Next1 \notin {"make_root", "override"}
    BY <1>3 DEF Due, Subject
  <2>3. Next1 \in {"clear_override", "remove_plist"} => failures
    BY <1>3 DEF Due, Subject
  <2>4. Keeps(Next1)
    BY <1>3 DEF Keeps, Quiet
  <2>5. Reaches(mode, Next1)
    BY <1>3, <2>1, <2>2, <2>3 DEF Reaches
  <2>6. todo' = Tail(todo) /\ op' = op /\ clause' = clause
    BY DEF SkipCommand, Proceed
  <2>7. ModeHolds(mode)'
    BY <1>2, <2>6 DEF At, ModeHolds
  <2> QED
    BY <1>1, <1>2, <2>4, <2>5, <2>6, <2>7, CommandsGoOn, GoesOn, IsReady
<1> QED
  BY <1>4, <1>5, <1>6

\* What a step raises ends the operation or disables the service again.
LEMMA RaisedHolds ==
  ASSUME Inv, todo # <<>>, NEW mode \in Modes, At(mode, Next1), Raised,
         mode \in Uninstalling \union {"cleanup"} => (Heeded => ~Startable')
  PROVE  ReportHolds' /\ HelperHolds'
<1>1. ModeHolds(mode) /\ result \in Results
  BY DEF At, Inv, TypeOK
<1>2. CASE clause = "started" \/ (clause = "body" /\ op \in {"enable", "disable"})
  <2>1. /\ todo' = Disable \o Raise("fail") /\ clause' = "cleanup"
        /\ UNCHANGED <<op, result>>
    BY <1>2 DEF Raised
  <2>2. op # "uninstall"
    BY <1>1, <1>2 DEF ModeHolds, Uninstalling
  <2>3. ReportHolds'
    BY <2>1, NoReport DEF Inv
  <2>4. Stretch("cleanup", todo', "hold", "fail")
    BY <2>1, RefusalStretch
  <2>5. ModeHolds("cleanup")'
    BY <2>1, <2>2 DEF ModeHolds, Uninstalling
  <2>6. Ready("cleanup", "hold")'
    BY DEF Ready, ReadyToInstall, ReadyToDisable, ReadyToRemove, Creating,
           BelowOverride, Removal
  <2>7. HelperHolds'
    BY <2>4, <2>5, <2>6, IsGiven DEF Modes, Final
  <2> QED
    BY <2>3, <2>7
<1>3. CASE ~(clause = "started"
             \/ (clause = "body" /\ op \in {"enable", "disable"}))
  <2>1. End("incomplete")
    BY <1>3 DEF Raised
  <2>2. HelperHolds'
    BY <2>1 DEF End, HelperHolds
  <2>3. op # "install" => mode \in Uninstalling \union {"cleanup"}
    BY <1>1, <1>3 DEF ModeHolds, Modes, Inv, TypeOK
  <2>4. Heeded /\ op' # "install" => ~Startable'
    BY <2>1, <2>3 DEF End
  <2>5. ReportHolds'
    BY <2>1, <2>4 DEF End, ReportHolds, CleanIsTrue, DisabledIsTrue
  <2> QED
    BY <2>2, <2>5
<1> QED
  BY <1>2, <1>3

\* What a failure does, by what it means to the step
LEMMA FailedIs ==
  ASSUME TypeOK, todo # <<>>, NEW mode, At(mode, Next1), Failed
  PROVE  \/ Raised /\ OnFailure(mode, Next1) = "raise"
         \/ Proceed /\ failures' = TRUE /\ result' = result
            /\ OnFailure(mode, Next1) = "note"
         \/ Proceed /\ UNCHANGED <<failures, result>>
            /\ OnFailure(mode, Next1) = "ignore"
<1>1. Head(todo) = todo[1]
  BY DEF TypeOK
<1>2. Head(todo).on = OnFailure(mode, Next1)
  BY <1>1 DEF At
<1>3. Head(todo).on \in {"raise", "note", "ignore"}
  <2>1. Head(todo) \in Steps
    BY DEF TypeOK
  <2> QED
    BY <2>1 DEF Steps
<1> QED
  BY <1>2, <1>3 DEF Failed

LEMMA FailsHolds ==
  ASSUME Inv, CommandFails
  PROVE  HostHolds' /\ ReportHolds' /\ HelperHolds'
<1>1. TypeOK /\ HostHolds /\ todo # <<>> /\ Next1 \in Commands
  BY DEF Inv, CommandFails, Idle
<1>2. PICK mode \in Modes : At(mode, Next1)
  BY <1>1, HelperIsAt DEF Inv
<1> DEFINE do == Next1
<1>3. /\ do \in Commands /\ Failed /\ UNCHANGED <<held, off, loaded, serving>>
      /\ ~Possible(do) \/ do \in Unreliable
      /\ host' = host \/ host' \in HalfDone(do)
  BY DEF CommandFails
<1>4. At(mode, do) /\ do \in Does(mode)
  BY <1>2 DEF At
<1>5. do \notin {"may_install?", "ours?", "held?", "unloaded?", "silent?",
                 "overridden?", "no_failures?", "no_blocking?"}
  BY <1>3 DEF Commands, Changing
<1>6. \/ Raised /\ OnFailure(mode, do) = "raise"
      \/ Proceed /\ failures' = TRUE /\ result' = result
         /\ OnFailure(mode, do) = "note"
      \/ Proceed /\ UNCHANGED <<failures, result>>
         /\ OnFailure(mode, do) = "ignore"
  BY <1>1, <1>2, <1>3, FailedIs
<1> HIDE DEF do
<1>7. HostIs(host', serving')
  BY <1>1, <1>3, <1>4, HalfHost, HostIsHolds
<1>8. HostHolds'
  BY <1>7 DEF HostHolds, HostIs, Whole, Ours, There, ForeignFound
<1>9. CASE Raised /\ OnFailure(mode, do) = "raise"
  <2>1. mode \notin Uninstalling \union {"cleanup"}
    BY <1>3, <1>4, <1>9, <1>5 DEF OnFailure, Does, Uninstalling, Commands,
       Changing, Disabling, Removal
  <2>2. ReportHolds' /\ HelperHolds'
    BY <1>1, <1>4, <1>9, <2>1, RaisedHolds DEF do
  <2> QED
    BY <1>8, <2>2
<1>10. CASE /\ Proceed /\ result' = result
            /\ \/ failures' = TRUE /\ OnFailure(mode, do) = "note"
               \/ failures' = failures /\ OnFailure(mode, do) = "ignore"
  <2>1. ReportHolds'
    BY <1>1, <1>10, NoReport DEF Inv
  <2>2. Keeps(do)
    <3>1. \A a \in Artifacts : host'[a] = "foreign" => host[a] = "foreign"
      BY <1>1, <1>3, <1>4, HalfHost
    <3>2. do \in Disabling \union {"bootout"} => host' = host
      BY <1>1, <1>3, <1>4, HalfHost DEF Disabling
    <3>3. failures => failures'
      BY <1>10
    <3> QED
      BY <1>3, <3>1, <3>2, <3>3 DEF Keeps, Quiet
  <2>3. Reaches(mode, do)
    <3>1. do # "make_root"
      BY <1>10 DEF OnFailure, Disabling, Removal
    <3>2. do = "override" => ~Heeded
      BY <1>3 DEF Possible, Heeded
    <3>3. do \in {"clear_override", "remove_plist"} => failures'
      BY <1>10 DEF OnFailure
    <3>4. do = "clear_override" => host' = host
      BY <1>1, <1>3, <1>4, HalfHost
    <3> QED
      BY <1>5, <3>1, <3>2, <3>3, <3>4 DEF Reaches
  <2>4. todo' = Tail(todo) /\ op' = op /\ clause' = clause
    BY <1>10 DEF Proceed
  <2>5. ModeHolds(mode)'
    BY <1>4, <2>4 DEF At, ModeHolds
  <2>6. HelperHolds'
    BY <1>1, <1>3, <1>4, <2>2, <2>3, <2>4, <2>5, CommandsGoOn, GoesOn, IsReady
  <2> QED
    BY <1>8, <2>1, <2>6
<1> QED
  BY <1>6, <1>9, <1>10

-----------------------------------------------------------------------------
(* The questions *)

\* Where something is ours, nothing is anybody else's.
LEMMA OwnedClear ==
  ASSUME HostHolds, Owned(host)
  PROVE  Clear
<1>1. PICK a \in {"marker", "app", "plist"} : host[a] = "ours"
  BY DEF Owned, Ours
<1>2. a \in Artifacts \ {"receipt"}
  BY DEF Artifacts
<1> QED
  BY <1>1, <1>2 DEF HostHolds, Clear, Ours

LEMMA MayInstallClear ==
  ASSUME TypeOK, HostHolds, MayInstall(host)
  PROVE  Clear /\ host["app"] # "ours"
<1>1. CASE Owned(host)
  BY <1>1, OwnedClear DEF MayInstall, There
<1>2. CASE ~Owned(host)
  <2>1. \A a \in {"root", "marker", "app", "plist"} : host[a] # "foreign"
    BY DEF MayInstall, Valid
  <2>2. \A a \in {"data", "logs", "user", "group", "queue"} : host[a] # "foreign"
    BY <1>2 DEF MayInstall, Valid, ValidAccount, There, Ours
  <2>3. host["receipt"] # "foreign"
    BY DEF HostHolds
  <2>4. Clear
    BY <2>1, <2>2, <2>3 DEF Clear, ForeignFound, Artifacts
  <2> QED
    BY <2>4 DEF MayInstall, There
<1> QED
  BY <1>1, <1>2

LEMMA ResidueIs ==
  /\ Residue(host) = {} =>
       /\ \A a \in Artifacts : host[a] = "absent"
       /\ Remains = {} /\ ~off /\ ~loaded
  /\ Residue(host) \ (Registration \union {"receipt"}) = {} =>
       \A a \in Artifacts \ {"plist", "receipt"} : host[a] = "absent"
  /\ Residue(host) \subseteq {"receipt", "override"} =>
       /\ \A a \in Artifacts \ {"receipt"} : host[a] = "absent"
<1>1. \A a \in Artifacts : host[a] # "absent" => a \in Residue(host)
  BY DEF Residue, There
<1>2. (off => "override" \in Residue(host))
      /\ (loaded => "launchd_job" \in Residue(host))
  BY DEF Residue
<1>3. Artifacts \intersect {"launchd_job", "override"} = {}
  BY DEF Artifacts
<1>4. Residue(host) = {} =>
       /\ \A a \in Artifacts : host[a] = "absent"
       /\ Remains = {} /\ ~off /\ ~loaded
  BY <1>1, <1>2 DEF Remains, There
<1>5. Residue(host) \ (Registration \union {"receipt"}) = {} =>
       \A a \in Artifacts \ {"plist", "receipt"} : host[a] = "absent"
  BY <1>1, <1>3 DEF Registration
<1>6. Residue(host) \subseteq {"receipt", "override"} =>
       \A a \in Artifacts \ {"receipt"} : host[a] = "absent"
  BY <1>1, <1>3
<1> QED
  BY <1>4, <1>5, <1>6

LEMMA NothingServes ==
  ASSUME HostHolds, \A a \in Artifacts : host[a] = "absent"
  PROVE  ~serving
<1>1. "app" \in Artifacts
  BY DEF Artifacts
<1> QED
  BY <1>1 DEF HostHolds, Whole, Ours

LEMMA QuestionsOnly ==
  ASSUME NEW do \in Questions
  PROVE  /\ do \notin Commands /\ (do # "clean?" => do \notin Final)
         /\ do \notin {"make_root", "override", "clear_override",
                       "remove_plist", "bootstrap", "hold", "bootout"}
BY DEF Questions, Commands, Changing, Final

\* A question that is answered with yes
LEMMA YesHolds ==
  ASSUME Inv, NEW mode \in Modes, At(mode, Next1), todo # <<>>,
         Next1 \in Questions, Answers(Next1, host),
         IF Next1 \in {"settled?", "clean?"} THEN Settle(TRUE) ELSE UNCHANGED off,
         IF Next1 = "clean?" THEN End("clean")
           ELSE Proceed /\ UNCHANGED <<failures, result>>,
         UNCHANGED <<host, held, loaded, serving>>
  PROVE  ReportHolds' /\ HelperHolds'
<1>1. TypeOK /\ HostHolds /\ off' = off
  BY DEF Inv, Settle, TypeOK
<1>2. CASE Next1 = "clean?"
  <2>1. End("clean") /\ Residue(host) = {}
    BY <1>2 DEF Answers
  <2>2. Remains = {} /\ ~off /\ ~loaded /\ ~serving
    BY <1>1, <2>1, ResidueIs, NothingServes
  <2>3. (Remains = {} /\ ~off /\ Quiet)'
    BY <1>1, <2>2 DEF Remains, There, Quiet
  <2>4. ReportHolds'
    BY <2>1, <2>3 DEF End, ReportHolds, CleanIsTrue, DisabledIsTrue
  <2>5. HelperHolds'
    BY <2>1 DEF End, HelperHolds
  <2> QED
    BY <2>4, <2>5
<1>3. CASE Next1 # "clean?"
  <2> DEFINE do == Next1
  <2>1. /\ do \in Questions /\ At(mode, do) /\ Answers(do, host)
        /\ Proceed /\ UNCHANGED <<failures, result>>
        /\ do \notin Final
    BY <1>3, QuestionsOnly
  <2> HIDE DEF do
  <2>2. ReportHolds'
    BY <2>1, NoReport DEF Inv
  <2>3. Keeps(do)
    BY <1>1, <2>1 DEF Keeps, Quiet
  <2>4. Reaches(mode, do)
    <3>1. do = "may_install?" => Clear /\ host["app"] # "ours"
      BY <1>1, <2>1, MayInstallClear DEF Answers
    <3>2. do = "ours?" => Clear
      BY <1>1, <2>1, OwnedClear DEF Answers
    <3>3. Clear => Clear'
      BY DEF Clear, ForeignFound
    <3>4. do = "held?" => (host["queue"] = "ours" => held)
      BY <2>1 DEF Answers, There
    <3>5. /\ do = "unloaded?" => ~loaded
          /\ do = "silent?" => ~serving
          /\ do = "overridden?" => off
          /\ do = "no_failures?" => ~failures
      BY <2>1 DEF Answers
    <3>6. do = "no_blocking?" =>
            /\ \A a \in Artifacts \ {"plist", "receipt"} : host[a] = "absent"
            /\ ~failures
      BY <2>1, ResidueIs DEF Answers
    <3>7. do \notin {"make_root", "override", "clear_override", "remove_plist"}
      BY <2>1, QuestionsOnly
    <3> QED
      BY <1>1, <2>1, <3>1, <3>2, <3>3, <3>4, <3>5, <3>6, <3>7 DEF Reaches
  <2>5. todo' = Tail(todo) /\ op' = op /\ clause' = clause
    BY <2>1 DEF Proceed
  <2>6. ModeHolds(mode)'
    BY <2>1, <2>5 DEF At, ModeHolds
  <2>7. HelperHolds'
    BY <1>1, <2>1, <2>3, <2>4, <2>5, <2>6, GoesOn, IsReady
  <2> QED
    BY <2>2, <2>7
<1> QED
  BY <1>2, <1>3

\* And one that is not
LEMMA NoHolds ==
  ASSUME Inv, NEW mode \in Modes, At(mode, Next1), todo # <<>>,
         Next1 \in Questions,
         IF Next1 \in {"settled?", "clean?"} THEN Settle(FALSE)
           ELSE UNCHANGED off,
         Failed, UNCHANGED <<host, held, loaded, serving>>
  PROVE  ReportHolds' /\ HelperHolds'
<1> DEFINE do == Next1
<1>1. TypeOK /\ HostHolds /\ do \in Questions /\ do \in Does(mode)
      /\ At(mode, do) /\ Ready(mode, do)
  BY DEF Inv, At
<1>2. (off => off') /\ (Heeded /\ do \in {"settled?", "clean?"} => off')
  BY DEF Settle, Heeded
<1>3. \/ Raised /\ OnFailure(mode, do) = "raise"
      \/ Proceed /\ failures' = TRUE /\ result' = result
         /\ OnFailure(mode, do) = "note"
      \/ Proceed /\ UNCHANGED <<failures, result>>
         /\ OnFailure(mode, do) = "ignore"
  BY <1>1, FailedIs
<1> HIDE DEF do
<1>4. OnFailure(mode, do) # "ignore"
  BY <1>1 DEF OnFailure, Questions
<1>5. CASE Raised /\ OnFailure(mode, do) = "raise"
  <2>1. mode \in Uninstalling \union {"cleanup"} =>
          do \in BelowOverride \union {"settled?", "clean?"}
    BY <1>1, <1>5 DEF OnFailure, Does, Uninstalling, Questions, BelowOverride,
       Disabling, Removal
  <2>2. mode \in Uninstalling \union {"cleanup"} => (Heeded => off')
    BY <1>1, <1>2, <2>1 DEF Ready, ReadyToDisable, Uninstalling
  <2>3. mode \in Uninstalling \union {"cleanup"} => (Heeded => ~Startable')
    BY <2>2 DEF Startable
  <2> QED
    BY <1>1, <1>5, <2>3, RaisedHolds DEF do
<1>6. CASE Proceed /\ failures' = TRUE /\ result' = result
           /\ OnFailure(mode, do) = "note"
  <2>1. ReportHolds'
    BY <1>6, NoReport DEF Inv
  <2>2. do \in {"held?", "unloaded?", "silent?", "overridden?"}
    BY <1>1, <1>6 DEF OnFailure, Questions, Disabling, Removal
  <2>3. Keeps(do)
    BY <1>2, <1>6 DEF Keeps, Quiet
  <2>4. Reaches(mode, do)
    BY <1>6, <2>2 DEF Reaches
  <2>5. todo' = Tail(todo) /\ op' = op /\ clause' = clause
    BY <1>6 DEF Proceed
  <2>6. ModeHolds(mode)'
    BY <1>1, <2>5 DEF At, ModeHolds
  <2>7. do \notin Final
    BY <2>2 DEF Final
  <2>8. HelperHolds'
    BY <1>1, <2>3, <2>4, <2>5, <2>6, <2>7, GoesOn, IsReady
  <2> QED
    BY <2>1, <2>8
<1> QED
  BY <1>3, <1>4, <1>5, <1>6

LEMMA AskHolds ==
  ASSUME Inv, Hearing, Ask
  PROVE  HostHolds' /\ ReportHolds' /\ HelperHolds'
<1>1. TypeOK /\ HostHolds /\ todo # <<>> /\ Next1 \in Questions
      /\ UNCHANGED <<host, held, loaded, serving>>
  BY DEF Inv, Ask, Idle
<1>2. PICK mode \in Modes : At(mode, Next1)
  BY <1>1, HelperIsAt DEF Inv
<1>3. /\ IF Next1 \in {"settled?", "clean?"}
           THEN Settle(Answers(Next1, host)) ELSE UNCHANGED off
      /\ IF ~Answers(Next1, host) THEN Failed
         ELSE IF Next1 = "clean?" THEN End("clean")
         ELSE Proceed /\ UNCHANGED <<failures, result>>
  BY <1>1, Seen DEF Ask
<1>4. HostHolds'
  BY <1>1 DEF HostHolds, Whole, Ours, There, ForeignFound
<1>5. CASE Answers(Next1, host)
  <2>1. IF Next1 \in {"settled?", "clean?"} THEN Settle(TRUE)
          ELSE UNCHANGED off
    BY <1>3, <1>5 DEF Settle
  <2> QED
    BY <1>1, <1>2, <1>3, <1>4, <1>5, <2>1, YesHolds
<1>6. CASE ~Answers(Next1, host)
  <2>1. IF Next1 \in {"settled?", "clean?"} THEN Settle(FALSE)
          ELSE UNCHANGED off
    BY <1>3, <1>6 DEF Settle
  <2> QED
    BY <1>1, <1>2, <1>3, <1>4, <1>6, <2>1, NoHolds
<1> QED
  BY <1>5, <1>6

-----------------------------------------------------------------------------
(* The decisions *)

LEMMA AccountHolds ==
  ASSUME Inv, Hearing, todo # <<>>, Next1 = "account",
         \E v \in Views : todo' = AccountSteps(v) \o Tail(todo),
         UNCHANGED <<op, clause, failures, result>>, UNCHANGED machine
  PROVE  HelperHolds'
<1>1. TypeOK /\ HostHolds /\ todo \in Seq(Steps)
  BY DEF Inv, TypeOK
<1>2. PICK mode \in Modes : At(mode, "account")
  BY <1>1, HelperIsAt DEF Inv
<1>3. mode = "install"
  BY <1>2 DEF At, Does, Modes, Uninstalling, Disabling, Creating, Starting,
              Removal
<1>4. Ready(mode, "account") /\ ModeHolds(mode)
  BY <1>2 DEF At
<1>5. Quiet /\ Clear
  BY <1>3, <1>4 DEF Ready, ReadyToInstall, Creating
<1>6. /\ UNCHANGED <<host, held, off, loaded, serving>>
      /\ Quiet' /\ Clear' /\ ModeHolds(mode)'
  BY <1>4, <1>5 DEF machine, Quiet, Clear, ForeignFound, ModeHolds
<1>7. todo' = AccountSteps(host) \o Tail(todo)
  BY <1>1, Seen
<1>8. "account" \notin Final
  BY DEF Final
<1>9. CASE AccountSteps(host) = <<>>
  <2>1. Tail(todo) \in Seq(Steps)
    BY <1>1
  <2>2. todo' = Tail(todo)
    BY <1>7, <1>9, <2>1
  <2>3. Keeps("account")
    BY <1>6 DEF Keeps
  <2>4. Reaches(mode, "account")
    BY DEF Reaches
  <2> QED
    BY <1>1, <1>2, <1>6, <1>8, <2>2, <2>3, <2>4, GoesOn, IsReady
<1>10. CASE AccountSteps(host) # <<>>
  <2> DEFINE rest == Tail(todo)
             account == AccountSteps(host)
  <2>1. /\ rest \in Seq(Steps) /\ rest # <<>> /\ Carries(mode, rest)
        /\ rest[1].do = "make_paths"
    <3>1. Carries(mode, todo) /\ todo[1].do = "account"
      BY <1>2 DEF At
    <3>2. /\ rest \in Seq(Steps) /\ rest # <<>> /\ Carries(mode, rest)
          /\ rest[1].do \in After(mode, "account")
      BY <1>1, <1>8, <3>1, Rest
    <3> QED
      BY <3>2, Order
  <2>2. PICK first \in Creating \ {"account"},
             middle \in {"create_group", "create_user"} :
               Stretch(mode, account, first, middle)
    BY <1>3, <1>10, AccountStretch
  <2>3. "make_paths" \in After(mode, middle)
    BY <2>2, Order
  <2>4. todo' = account \o rest
    BY <1>7
  <2> HIDE DEF rest, account
  <2>5. PICK last \in Final : Stretch(mode, rest, "make_paths", last)
    BY <2>1, ToTheEnd
  <2>6. Stretch(mode, todo', first, last)
    BY <2>2, <2>3, <2>4, <2>5, Join
  <2>7. first \in {"delete_user", "delete_group", "create_group",
                   "create_user"}
    BY <2>2 DEF Creating
  <2>8. Ready(mode, first)'
    BY <1>3, <1>6, <2>7 DEF Ready, ReadyToInstall, ReadyToDisable,
       ReadyToRemove, BelowOverride, Removal
  <2> QED
    BY <1>2, <1>6, <2>6, <2>8, IsGiven
<1> QED
  BY <1>9, <1>10

LEMMA UninstallHolds ==
  ASSUME Inv, Hearing, todo # <<>>, Next1 = "uninstall",
         \E v \in Views : todo' = UninstallSteps(v),
         UNCHANGED <<op, clause, failures, result>>, UNCHANGED machine
  PROVE  HelperHolds'
<1>1. TypeOK /\ HostHolds
  BY DEF Inv
<1>2. PICK mode \in Modes : At(mode, "uninstall")
  BY <1>1, HelperIsAt DEF Inv
<1>3. mode = "decide"
  BY <1>2 DEF At, Does, Modes, Uninstalling, Disabling, Creating, Starting,
              Removal
<1>4. op' = "uninstall" /\ clause' = "body" /\ ~failures'
  <2>1. ModeHolds(mode) /\ Ready(mode, "uninstall")
    BY <1>2 DEF At
  <2>2. clause \in {"body", "started", "cleanup"} /\ ~failures
        /\ op = "uninstall"
    BY <1>1, <1>3, <2>1
       DEF TypeOK, Ready, ReadyToRemove, ModeHolds, Uninstalling
  <2> QED
    BY <1>3, <2>1, <2>2 DEF ModeHolds
<1>5. \A m \in Uninstalling : m \in Modes /\ ModeHolds(m)'
  BY <1>4 DEF ModeHolds, Uninstalling, Modes
<1>6. todo' = UninstallSteps(host)
  BY <1>1, Seen
<1>7. UNCHANGED <<host, held, off, loaded, serving>>
  BY DEF machine
<1>8. {"refuse", "rest", "remove", "forget"} \subseteq Uninstalling
      /\ {"fail", "clean", "clean?"} \subseteq Final
  BY DEF Uninstalling, Final
<1>9. CASE todo' = Disable \o Raise("fail")
  <2>1. Stretch("refuse", todo', "hold", "fail")
    BY <1>9, RefusalStretch
  <2>2. Ready("refuse", "hold")'
    BY DEF Ready, ReadyToInstall, ReadyToDisable, ReadyToRemove, Creating,
           BelowOverride, Removal
  <2> QED
    BY <1>5, <1>8, <2>1, <2>2, IsGiven
<1>10. CASE todo' = Raise("fail") /\ host["plist"] # "ours"
  <2>1. Stretch("refuse", todo', "fail", "fail")
    BY <1>10, OneStep
  <2>2. ~Startable'
    BY <1>7, <1>10 DEF Startable
  <2>3. Ready("refuse", "fail")'
    BY <2>2 DEF Ready, ReadyToInstall, ReadyToDisable, ReadyToRemove, Creating,
                BelowOverride, Removal
  <2> QED
    BY <1>5, <1>8, <2>1, <2>3, IsGiven
<1>11. CASE todo' = Raise("clean") /\ Residue(host) = {}
  <2>1. Stretch("rest", todo', "clean", "clean")
    BY <1>11, OneStep
  <2>2. Remains = {} /\ ~off /\ Quiet
    BY <1>1, <1>11, ResidueIs, NothingServes DEF Quiet
  <2>3. (Remains = {} /\ ~off /\ Quiet)'
    BY <1>7, <2>2 DEF Remains, There, Quiet
  <2>4. Ready("rest", "clean")'
    BY <2>3 DEF Ready, ReadyToInstall, ReadyToDisable, ReadyToRemove, Creating,
                BelowOverride, Removal
  <2> QED
    BY <1>5, <1>8, <2>1, <2>4, IsGiven
<1>12. CASE todo' = RemoveAll /\ Owned(host)
  <2>1. Stretch("remove", todo', "hold", "clean?")
    BY <1>12, RemoveStretch
  <2>2. Clear'
    BY <1>1, <1>7, <1>12, OwnedClear DEF Clear, ForeignFound
  <2>3. Ready("remove", "hold")'
    BY <2>2 DEF Ready, ReadyToInstall, ReadyToDisable, ReadyToRemove, Creating,
                BelowOverride, Removal, Disabling
  <2> QED
    BY <1>5, <1>8, <2>1, <2>3, IsGiven
<1>13. CASE todo' = ForgetOnly /\ Residue(host) \subseteq {"receipt", "override"}
  <2>1. Stretch("forget", todo', "clear_override", "clean?")
    BY <1>13, ForgetStretch
  <2>2. Remains' \subseteq {"receipt"}
    BY <1>7, <1>13, ResidueIs DEF Remains, There
  <2>3. Ready("forget", "clear_override")'
    BY <1>4, <2>2 DEF Ready, ReadyToInstall, ReadyToDisable, ReadyToRemove,
       Creating, BelowOverride, Removal
  <2> QED
    BY <1>5, <1>8, <2>1, <2>3, IsGiven
<1>14. ~Owned(host) => host["plist"] # "ours"
  BY DEF Owned, Ours
<1>15. \/ todo' = Disable \o Raise("fail")
       \/ todo' = Raise("fail") /\ ~Owned(host)
       \/ todo' = Raise("clean") /\ Residue(host) = {}
       \/ todo' = RemoveAll /\ Owned(host)
       \/ todo' = ForgetOnly /\ Residue(host) \subseteq {"receipt", "override"}
  BY <1>6 DEF UninstallSteps
<1> QED
  BY <1>9, <1>10, <1>11, <1>12, <1>13, <1>14, <1>15

LEMMA DecideHolds ==
  ASSUME Inv, Hearing, Decide
  PROVE  HostHolds' /\ ReportHolds' /\ HelperHolds'
<1>1. TypeOK /\ HostHolds /\ todo # <<>> /\ UNCHANGED machine
  BY DEF Inv, Decide, Idle
<1>2. PICK mode \in Modes : At(mode, Next1)
  BY <1>1, HelperIsAt DEF Inv
<1>3. HostHolds'
  BY <1>1 DEF HostHolds, Whole, Ours, There, ForeignFound, machine
<1>4. CASE /\ Next1 = "uninstall"
           /\ \E v \in Views : todo' = UninstallSteps(v)
           /\ UNCHANGED <<op, clause, failures, result>>
  BY <1>1, <1>3, <1>4, NoReport, UninstallHolds DEF Inv
<1>5. CASE /\ Next1 = "account"
           /\ \E v \in Views : todo' = AccountSteps(v) \o Tail(todo)
           /\ UNCHANGED <<op, clause, failures, result>>
  BY <1>1, <1>3, <1>5, NoReport, AccountHolds DEF Inv
<1>6. CASE /\ Next1 = "try" /\ todo' = Tail(todo) /\ clause' = "started"
           /\ UNCHANGED <<op, failures, result>>
  <2>1. mode = "install"
    BY <1>2, <1>6 DEF At, Does, Modes, Uninstalling, Disabling, Creating,
       Starting, Removal
  <2>2. ModeHolds(mode)'
    BY <1>2, <1>6, <2>1 DEF At, ModeHolds, Uninstalling
  <2>3. Keeps("try") /\ Reaches(mode, "try")
    BY <1>1, <1>6 DEF Keeps, Reaches, machine, Quiet
  <2>4. At(mode, "try") /\ "try" \notin Final
    BY <1>2, <1>6 DEF Final
  <2>5. HelperHolds'
    BY <1>1, <1>6, <2>2, <2>3, <2>4, GoesOn, IsReady
  <2> QED
    BY <1>1, <1>3, <1>6, <2>5, NoReport DEF Inv
<1>7. CASE \/ Next1 \in {"enabled", "disabled", "clean"} /\ End(Next1)
           \/ Next1 = "fail" /\ End("incomplete")
  <2> DEFINE do == Next1
  <2>1. Ready(mode, do) /\ todo' = <<>> /\ clause' = "body"
        /\ UNCHANGED <<host, held, off, loaded, serving>>
        /\ \/ do \in {"enabled", "disabled", "clean"} /\ result' = do
           \/ do = "fail" /\ result' = "incomplete"
    BY <1>1, <1>2, <1>7 DEF End, At, machine
  <2> HIDE DEF do
  <2>2. HelperHolds'
    BY <2>1 DEF HelperHolds
  <2>3. CleanIsTrue'
    BY <2>1 DEF CleanIsTrue, Ready, ReadyToRemove, Remains, There, Quiet
  <2>4. DisabledIsTrue'
    BY <2>1 DEF DisabledIsTrue, Ready, ReadyToDisable, Quiet, Ours
  <2>5. (Heeded /\ result = "incomplete" => ~Startable)'
    BY <2>1 DEF Heeded, Ready, ReadyToDisable, Startable
  <2> QED
    BY <1>3, <2>1, <2>2, <2>3, <2>4, <2>5 DEF ReportHolds
<1> QED
  BY <1>4, <1>5, <1>6, <1>7 DEF Decide

-----------------------------------------------------------------------------
(* The beginning of an operation *)

LEMMA BeginHolds ==
  ASSUME Inv, Begin
  PROVE  HostHolds' /\ ReportHolds' /\ HelperHolds'
<1>1. /\ UNCHANGED <<host, held, off, loaded, serving>> /\ clause' = "body"
      /\ failures' = FALSE /\ result' = "none"
  BY DEF Begin, machine
<1>2. PICK o \in {"install", "disable", "enable", "uninstall"} :
        /\ op' = o
        /\ o = "install" => todo' = InstallSteps
        /\ o = "enable" => todo' = EnableSteps
        /\ o = "disable" => todo' = DisableSteps
        /\ o = "uninstall" => todo' = Raise("uninstall")
  BY InstallAssumption DEF Begin
<1>3. HostHolds'
  BY <1>1 DEF Inv, HostHolds, Whole, Ours, There, ForeignFound
<1>4. ReportHolds'
  BY <1>1, NoReport
<1>5. /\ \A m \in {"install", "enable", "disable"} :
           m \in Modes /\ (o = m => ModeHolds(m)')
      /\ "decide" \in Modes /\ (o = "uninstall" => ModeHolds("decide")')
  BY <1>1, <1>2 DEF ModeHolds, Modes, Uninstalling
<1>6. {"enabled", "disabled", "uninstall"} \subseteq Final
  BY DEF Final
<1>7. /\ Ready("install", "may_install?")'
      /\ Ready("enable", "ours?")' /\ Ready("disable", "ours?")'
      /\ Ready("decide", "uninstall")'
  BY <1>1 DEF Ready, ReadyToInstall, ReadyToDisable, ReadyToRemove, Creating,
              BelowOverride, Removal
<1>8. CASE o = "install"
  <2>1. Stretch("install", todo', "may_install?", "enabled")
    BY <1>2, <1>8, InstallStretch
  <2> QED
    BY <1>3, <1>4, <1>5, <1>6, <1>7, <1>8, <2>1, IsGiven
<1>9. CASE o = "enable"
  <2>1. Stretch("enable", todo', "ours?", "enabled")
    BY <1>2, <1>9, EnableStretch
  <2> QED
    BY <1>3, <1>4, <1>5, <1>6, <1>7, <1>9, <2>1, IsGiven
<1>10. CASE o = "disable"
  <2>1. Stretch("disable", todo', "ours?", "disabled")
    BY <1>2, <1>10, DisablingStretch
  <2> QED
    BY <1>3, <1>4, <1>5, <1>6, <1>7, <1>10, <2>1, IsGiven
<1>11. CASE o = "uninstall"
  <2>1. Stretch("decide", todo', "uninstall", "uninstall")
    BY <1>2, <1>11, OneStep
  <2> QED
    BY <1>3, <1>4, <1>5, <1>6, <1>7, <1>11, <2>1, IsGiven
<1> QED
  BY <1>2, <1>8, <1>9, <1>10, <1>11

-----------------------------------------------------------------------------
(* The others *)

LEMMA StoppedHolds ==
  ASSUME Inv, Stopped, serving' \in BOOLEAN, serving' => serving
  PROVE  HostHolds' /\ ReportHolds' /\ HelperHolds'
<1>1. TypeOK /\ HostHolds /\ todo # <<>>
  BY DEF Inv, Stopped, Idle
<1>2. PICK mode \in Modes : At(mode, Next1)
  BY <1>1, HelperIsAt DEF Inv
<1>3. /\ host' = host \/ host' \in HalfDone(Next1)
      /\ todo' = <<>> /\ result' = "killed" /\ clause' = "body"
  BY DEF Stopped
<1>4. HostIs(host', serving)
  BY <1>1, <1>2, <1>3, HalfHost, HostIsHolds
<1>5. HostHolds'
  BY <1>4 DEF HostHolds, HostIs, Whole, Ours, There, ForeignFound
<1>6. ReportHolds' /\ HelperHolds'
  BY <1>3 DEF ReportHolds, CleanIsTrue, DisabledIsTrue, HelperHolds
<1> QED
  BY <1>5, <1>6

\* Where there is a job to be loaded, or a service to come up, the helper is
\* not where it relies on there being none.
LEMMA ElsewhereHolds ==
  ASSUME Inv, UNCHANGED <<host, held, off, helper, result>>,
         loaded' => loaded \/ (Idle /\ Startable),
         serving' => serving \/ (loaded /\ Whole)
  PROVE  HostHolds' /\ ReportHolds' /\ HelperHolds'
<1>1. TypeOK /\ HostHolds /\ ReportHolds /\ HelperHolds
      /\ UNCHANGED <<todo, op, clause, failures>>
  BY DEF Inv, helper
<1>2. HostHolds'
  BY <1>1 DEF HostHolds, Whole, Ours, There, ForeignFound
<1>3. Remains = {} => ~Startable /\ ~Whole
  <2>1. {"plist", "app"} \subseteq Artifacts
    BY DEF Artifacts
  <2> QED
    BY <2>1 DEF Remains, There, Startable, Whole, Ours
<1>4. ReportHolds'
  <2>1. CleanIsTrue'
    BY <1>1, <1>3 DEF ReportHolds, CleanIsTrue, Remains, There, Quiet
  <2>2. DisabledIsTrue'
    BY <1>1 DEF ReportHolds, DisabledIsTrue, Quiet, Ours, Startable
  <2> QED
    BY <1>1, <2>1, <2>2 DEF ReportHolds, Startable
<1>5. HelperHolds'
  <2>1. CASE todo = <<>>
    BY <1>1, <2>1 DEF HelperHolds
  <2>2. CASE todo # <<>>
    <3>1. PICK mode \in Modes : /\ Carries(mode, todo) /\ ModeHolds(mode)
                                /\ Ready(mode, todo[1].do)
      BY <1>1, <2>2 DEF HelperHolds
    <3>2. (loaded' => loaded) /\ (Quiet => Quiet')
      BY <2>2 DEF Idle, Quiet
    <3>3. ReadyToInstall(mode, todo[1].do)'
      BY <1>1, <3>1, <3>2
         DEF Ready, ReadyToInstall, Clear, ForeignFound, Ours
    <3>4. ReadyToDisable(mode, todo[1].do)'
      <4> DEFINE do == todo[1].do
      <4>1. ReadyToDisable(mode, do) /\ todo' = todo
        BY <1>1, <3>1 DEF Ready
      <4>2. do \in {"overridden?", "no_failures?"} => failures \/ Quiet
        BY <4>1 DEF ReadyToDisable, Quiet
      <4> QED
        BY <1>1, <3>2, <4>1, <4>2 DEF ReadyToDisable, Ours, Startable, Quiet
    <3>5. ReadyToRemove(mode, todo[1].do)'
      BY <1>1, <3>1, <3>2 DEF Ready, ReadyToRemove, Remains, There
    <3>6. Carries(mode, todo)' /\ ModeHolds(mode)'
      BY <1>1, <3>1 DEF Carries, Belongs, ModeHolds
    <3> QED
      BY <1>1, <2>2, <3>1, <3>3, <3>4, <3>5, <3>6 DEF HelperHolds, Ready
  <2> QED
    BY <2>1, <2>2
<1> QED
  BY <1>2, <1>4, <1>5

LEMMA OthersHold ==
  ASSUME Inv, Kill \/ Reboot \/ ServiceUp \/ ServiceDown \/ BecomeCalm
              \/ UNCHANGED vars
  PROVE  HostHolds' /\ ReportHolds' /\ HelperHolds'
<1>1. serving \in BOOLEAN /\ loaded \in BOOLEAN
  BY DEF Inv, TypeOK
<1>2. CASE Kill
  <2>1. serving' \in BOOLEAN /\ (serving' => serving)
    BY <1>1, <1>2 DEF Kill
  <2> QED
    BY <1>2, <2>1, StoppedHolds DEF Kill
<1>3. CASE Reboot
  <2>1. serving' \in BOOLEAN /\ ~serving'
    BY <1>3 DEF Reboot
  <2>2. CASE Stopped
    BY <2>1, <2>2, StoppedHolds
  <2>3. CASE Idle /\ UNCHANGED <<host, helper, result>>
    <3>1. UNCHANGED <<host, held, off, helper, result>>
      BY <1>3, <2>3 DEF Reboot
    <3>2. loaded' => Startable
      BY <1>3 DEF Reboot, Startable
    <3> QED
      BY <2>1, <2>3, <3>1, <3>2, ElsewhereHolds
  <2> QED
    BY <1>3, <2>2, <2>3 DEF Reboot
<1>4. CASE ServiceUp
  <2>1. UNCHANGED <<host, held, off, helper, result>> /\ loaded' = loaded
        /\ loaded /\ Whole
    BY <1>4 DEF ServiceUp
  <2> QED
    BY <2>1, ElsewhereHolds
<1>5. CASE ServiceDown
  <2>1. UNCHANGED <<host, held, off, helper, result>> /\ loaded' = loaded
        /\ ~serving'
    BY <1>5 DEF ServiceDown
  <2> QED
    BY <2>1, ElsewhereHolds
<1>6. CASE BecomeCalm \/ UNCHANGED vars
  <2>1. UNCHANGED <<host, held, off, helper, result>> /\ loaded' = loaded
        /\ serving' = serving
    BY <1>6 DEF BecomeCalm, vars, machine
  <2> QED
    BY <2>1, ElsewhereHolds
<1> QED
  BY <1>2, <1>3, <1>4, <1>5, <1>6

-----------------------------------------------------------------------------
(* The invariant *)

LEMMA InvInit == Init => Inv
<1> SUFFICES ASSUME Init PROVE Inv
  OBVIOUS
<1>1. TypeOK
  BY TypeInit
<1>2. PICK foreign \in Collisions, receipt \in {"absent", "ours"} :
        host = [a \in Artifacts |-> CASE a \in foreign -> "foreign"
                                      [] a = "receipt" -> receipt
                                      [] OTHER -> "absent"]
  BY DEF Init
<1>3. /\ "receipt" \in Artifacts /\ "receipt" \notin foreign
      /\ {"app", "data"} \subseteq Artifacts \ {"receipt"}
  BY InstallAssumption DEF Artifacts
<1>4. \A a \in Artifacts \ {"receipt"} : host[a] \in {"foreign", "absent"}
  BY <1>2
<1>5. host["receipt"] = receipt
  BY <1>2, <1>3
<1>6. HostHolds
  BY <1>3, <1>4, <1>5 DEF Init, HostHolds, Ours
<1>7. ReportHolds /\ HelperHolds
  BY DEF Init, ReportHolds, CleanIsTrue, DisabledIsTrue, HelperHolds
<1> QED
  BY <1>1, <1>6, <1>7 DEF Inv

LEMMA InvNext ==
  ASSUME Hearing
  PROVE  Inv /\ [Next]_vars => Inv'
<1> SUFFICES ASSUME Inv, [Next]_vars PROVE Inv'
  OBVIOUS
<1>1. TypeOK'
  BY TypeStep DEF Inv
<1>2. CASE Begin
  BY <1>1, <1>2, BeginHolds DEF Inv
<1>3. CASE RunCommand
  BY <1>1, <1>3, RunHolds DEF Inv
<1>4. CASE SkipCommand
  BY <1>1, <1>4, SkipHolds DEF Inv
<1>5. CASE CommandFails
  BY <1>1, <1>5, FailsHolds DEF Inv
<1>6. CASE Ask
  BY <1>1, <1>6, AskHolds DEF Inv
<1>7. CASE Decide
  BY <1>1, <1>7, DecideHolds DEF Inv
<1>8. CASE Kill \/ Reboot \/ ServiceUp \/ ServiceDown \/ BecomeCalm
           \/ UNCHANGED vars
  BY <1>1, <1>8, OthersHold DEF Inv
<1> QED
  BY <1>2, <1>3, <1>4, <1>5, <1>6, <1>7, <1>8 DEF Next, Helper

LEMMA Invariance ==
  ASSUME Hearing
  PROVE  Spec => []Inv
BY InvInit, InvNext, PTL DEF Spec

-----------------------------------------------------------------------------
(* What is reported *)

\* When every question is answered and launchctl disable works, a reported
\* result is so: after "clean" (verify_clean_removal, 815-819) nothing of the
\* product is left, after "disabled" (573-629) nothing serves or will be
\* started, and a disable, enable or uninstall that is incomplete leaves a
\* service that launchd does not start, whatever else failed or was stopped in
\* whatever number of operations before.
THEOREM ReportIsSo ==
  ASSUME Hearing, Heeded
  PROVE  Spec => []ReportIsTrue
<1>1. Inv => ReportIsTrue
  BY DEF Inv, ReportHolds, CleanIsTrue, DisabledIsTrue, ReportIsTrue, Quiet,
         Startable
<1> QED
  BY <1>1, Invariance, PTL

\* Two of the three are so even when launchctl disable may fail: "clean"
\* (681-682, 697-718, 815-819) and "disabled", which asks for the override
\* (617-619) instead of trusting the command.
THEOREM CleanAndDisabledAreSo ==
  ASSUME Hearing
  PROVE  Spec => [](CleanIsTrue /\ DisabledIsTrue)
<1>1. Inv => CleanIsTrue /\ DisabledIsTrue
  BY DEF Inv, ReportHolds
<1> QED
  BY <1>1, Invariance, PTL

-----------------------------------------------------------------------------
(* What belongs to somebody else *)

\* The steps that change an artifact
LEMMA HostChanges ==
  ASSUME Inv, [Next]_vars, host' # host
  PROVE  /\ todo # <<>>
         /\ \E mode \in Modes :
              /\ At(mode, Next1)
              /\ \/ /\ Next1 \in Changing /\ Due(Next1) /\ off' = off
                    /\ host' = With(Affected[Next1], Left(Next1))
                 \/ host' \in HalfDone(Next1)
<1>1. RunCommand \/ CommandFails \/ Stopped
  BY DEF Next, Helper, Begin, SkipCommand, Ask, Decide, Kill, Reboot,
         ServiceUp, ServiceDown, BecomeCalm, vars, machine
<1>2. TypeOK /\ todo # <<>>
  BY <1>1 DEF Inv, RunCommand, CommandFails, Stopped, Idle
<1>3. PICK mode \in Modes : At(mode, Next1)
  BY <1>2, HelperIsAt DEF Inv
<1>4. CASE RunCommand
  <2>1. Effect(Next1) /\ Due(Next1) /\ Next1 \in Changing
    BY <1>4 DEF RunCommand, Effect
  <2>2. host' = With(Affected[Next1], Left(Next1))
    BY <2>1 DEF Effect
  <2>3. off' = off
    BY <2>1 DEF Effect, Changing
  <2> QED
    BY <1>2, <1>3, <2>1, <2>2, <2>3
<1>5. CASE CommandFails \/ Stopped
  <2>1. host' \in HalfDone(Next1)
    BY <1>5 DEF CommandFails, Stopped
  <2> QED
    BY <1>2, <1>3, <2>1
<1> QED
  BY <1>1, <1>4, <1>5

\* When every question is answered, no step of any operation, done, failed or
\* left half done, changes an artifact that is somebody else's: install asks
\* before it makes anything (645-652), and enable and uninstall go on only
\* where the product is known to be ours (632-634, 671-718).
THEOREM ForeignStays ==
  ASSUME Hearing
  PROVE  Spec => ForeignUntouched
<1>1. ASSUME Inv, [Next]_vars, NEW a \in Artifacts, host[a] = "foreign"
      PROVE  host'[a] = "foreign"
  <2>1. CASE host' = host
    BY <1>1, <2>1
  <2>2. CASE host' # host
    <3>1. TypeOK /\ HostHolds
      BY <1>1 DEF Inv
    <3>2. PICK mode \in Modes :
            /\ At(mode, Next1)
            /\ \/ /\ Next1 \in Changing
                  /\ host' = With(Affected[Next1], Left(Next1))
               \/ host' \in HalfDone(Next1)
      BY <1>1, <2>2, HostChanges
    <3>3. CASE Next1 \in Changing
               /\ host' = With(Affected[Next1], Left(Next1))
      BY <1>1, <3>1, <3>2, <3>3, CommandHost
    <3>4. CASE host' \in HalfDone(Next1)
      <4>1. Clear
        BY <3>1, <3>2, <3>4, HalfHost
      <4> QED
        BY <1>1, <4>1 DEF Clear, ForeignFound
    <3> QED
      BY <3>2, <3>3, <3>4
  <2> QED
    BY <2>1, <2>2
<1>2. Inv /\ [Next]_vars =>
        [\A a \in Artifacts : host[a] = "foreign" => host'[a] = "foreign"]_vars
  BY <1>1
<1> QED
  BY <1>2, Invariance, PTL DEF Spec, ForeignUntouched

-----------------------------------------------------------------------------
(* An uninstall can be taken up again *)

\* Sound of any host
SoundIs(h) ==
  /\ \A a \in {"root", "marker", "app", "plist"} : h[a] \in {"absent", "ours"}
  /\ \A a \in {"data", "logs"} :
       h[a] # "absent" =>
         h[a] = "ours" /\ h["user"] = "ours" /\ h["group"] = "ours"
  /\ h["user"] # "absent" /\ h["group"] # "absent" =>
       h["user"] = "ours" /\ h["group"] = "ours"
  /\ h["queue"] # "foreign"

LEMMA SoundIsSound ==
  /\ Sound <=> SoundIs(host)
  /\ Sound' <=> SoundIs(host')
BY DEF Sound, SoundIn, SoundIs, Valid, ValidAccount, AccountMatches, There, Ours

\* What uninstall removes, in its order, leaves what is left sound.
LEMMA RemovalKeeps ==
  ASSUME Inv, Sound, Ours(host, "plist") \/ Remains = {"receipt"},
         NEW mode \in {"remove", "forget"}, NEW do \in Changing,
         At(mode, do), Due(do), off' = off,
         host' = With(Affected[do], Left(do))
  PROVE  (Sound /\ (Ours(host, "plist") \/ Finished))'
<1>1. do \in Does(mode) /\ Ready(mode, do)
  BY DEF At
<1>2. do \in {"remove_queue", "remove_logs", "remove_root", "remove_user",
              "remove_group", "remove_plist", "forget"}
  BY <1>1 DEF Does, Changing, Disabling, Removal
<1>3. {"root", "marker", "data", "logs", "app", "plist", "queue", "user",
       "group", "receipt"} = Artifacts
  BY DEF Artifacts
<1>4. /\ Affected["remove_queue"] = {"queue"}
      /\ Affected["remove_logs"] = {"logs"}
      /\ Affected["remove_root"] = {"root", "marker", "app", "data"}
      /\ Affected["remove_user"] = {"user"}
      /\ Affected["remove_group"] = {"group"}
      /\ Affected["remove_plist"] = {"plist"}
      /\ Affected["forget"] = {"receipt"}
  BY DEF Affected
<1>5. \A a \in Artifacts :
        host'[a] = IF a \in Affected[do] THEN "absent" ELSE host[a]
  BY <1>2, WithIs, LeftIs DEF Removing
<1>6. SoundIs(host)
  BY SoundIsSound
<1>7. CASE do \in {"remove_plist", "forget"}
  <2>1. \A a \in Artifacts \ {"plist", "receipt"} : host[a] = "absent"
    <3>1. ~failures
      BY <1>7 DEF Due
    <3>2. CASE do = "remove_plist"
      <4>1. mode = "remove"
        BY <1>1, <3>2 DEF Does
      <4> QED
        BY <1>1, <3>2, <4>1, RemainsIn DEF Ready, ReadyToRemove
    <3>3. CASE do = "forget"
      BY <1>1, <3>1, <3>3, RemainsIn DEF Ready, ReadyToRemove
    <3> QED
      BY <1>7, <3>2, <3>3
  <2>2. ~off'
    BY <1>1, <1>7 DEF Ready, ReadyToRemove, Due
  <2>3. do = "forget" => host["plist"] = "absent"
    BY <1>1, <1>3, RemainsIn DEF Ready, ReadyToRemove, Due
  <2>4. \A a \in Artifacts \ {"receipt"} : host'[a] = "absent"
    BY <1>3, <1>4, <1>5, <1>7, <2>1, <2>3
  <2>5. SoundIs(host')
    BY <1>3, <2>4 DEF SoundIs
  <2>6. Finished'
    <3>1. Remains' \subseteq {"receipt"}
      BY <2>4 DEF Remains, There
    <3> QED
      BY <2>2, <3>1 DEF Finished
  <2> QED
    BY <2>5, <2>6, SoundIsSound
<1>8. CASE do \in {"remove_queue", "remove_logs", "remove_root",
                   "remove_user", "remove_group"}
  <2>1. host'["plist"] = host["plist"] /\ host'["receipt"] = host["receipt"]
    BY <1>3, <1>4, <1>5, <1>8
  <2>2. \A a \in Artifacts : host'[a] \in {host[a], "absent"}
    BY <1>5
  <2>3. SoundIs(host')
    <3>1. do \in {"remove_user", "remove_group"} =>
            host["logs"] = "absent" /\ host["data"] = "absent"
      <4>1. do \in {"remove_user", "remove_group"} =>
              host["root"] = "absent" /\ host["logs"] = "absent"
        BY DEF Due, There
      <4>2. host["data"] = "ours" => host["root"] # "absent"
        BY DEF Inv, HostHolds, Ours, There
      <4> QED
        BY <1>6, <4>1, <4>2 DEF SoundIs
    <3>2. do \notin {"remove_user", "remove_group"} =>
            host'["user"] = host["user"] /\ host'["group"] = host["group"]
      BY <1>3, <1>4, <1>5, <1>8
    <3> QED
      BY <1>3, <1>6, <2>2, <3>1, <3>2 DEF SoundIs
  <2>4. Ours(host, "plist")' \/ Finished'
    <3>1. CASE Ours(host, "plist")
      BY <2>1, <3>1 DEF Ours
    <3>2. CASE Remains = {"receipt"}
      <4>1. host["receipt"] # "absent"
            /\ \A a \in Artifacts \ {"receipt"} : host[a] = "absent"
        BY <3>2 DEF Remains, There
      <4>2. Remains' = {"receipt"}
        BY <1>3, <2>1, <2>2, <4>1 DEF Remains, There
      <4> QED
        BY <4>2 DEF Finished
    <3> QED
      BY <3>1, <3>2
  <2> QED
    BY <2>3, <2>4, SoundIsSound
<1> QED
  BY <1>2, <1>7, <1>8

\* A removal of the root that was stopped keeps the evidence, and leaves what
\* the next uninstall can remove unless it was stopped in the middle of the app.
LEMMA HalfRemovalKeeps ==
  ASSUME Inv, Sound, Ours(host, "plist") \/ Remains = {"receipt"},
         host' \in HalfDone("remove_root")
  PROVE  (Ours(host, "plist") \/ Finished)' /\ (Sound' \/ AppInPieces')
<1>1. \A a \in Artifacts :
        /\ host'[a] \in {host[a], "absent"} \/ (a = "app" /\ host'[a] = "torn")
        /\ host'[a] # host[a] => a \in {"marker", "app", "data"}
  BY HalfRemoved
<1>2. {"root", "marker", "data", "logs", "app", "plist", "queue", "user",
       "group", "receipt"} = Artifacts
  BY DEF Artifacts
<1>3. SoundIs(host)
  BY SoundIsSound
<1>4. Ours(host, "plist")' \/ Finished'
  <2>1. CASE Ours(host, "plist")
    BY <1>1, <1>2, <2>1 DEF Ours
  <2>2. CASE Remains = {"receipt"}
    <3>1. host["receipt"] # "absent" /\ host["app"] = "absent"
          /\ \A a \in Artifacts \ {"receipt"} : host[a] = "absent"
      BY <1>2, <2>2 DEF Remains, There
    <3>2. host'["app"] = "absent"
      BY <1>2, <3>1 DEF HalfDone, There, With
    <3>3. Remains' = {"receipt"}
      BY <1>1, <1>2, <3>1, <3>2 DEF Remains, There
    <3> QED
      BY <3>3 DEF Finished
  <2> QED
    BY <2>1, <2>2
<1>5. CASE host'["app"] # "torn"
  <2>1. \A a \in Artifacts : host'[a] \in {host[a], "absent"}
    BY <1>1, <1>5
  <2>2. SoundIs(host')
    BY <1>1, <1>2, <1>3, <2>1 DEF SoundIs
  <2> QED
    BY <1>4, <2>2, SoundIsSound
<1>6. CASE host'["app"] = "torn"
  <2> DEFINE rest == With({"app"}, "absent")'
  <2>1. \A a \in Artifacts : rest[a] = IF a = "app" THEN "absent" ELSE host'[a]
    BY DEF With
  <2>2. /\ \A a \in Artifacts : rest[a] \in {host[a], "absent"}
        /\ rest["user"] = host["user"] /\ rest["group"] = host["group"]
        /\ host'["user"] = host["user"] /\ host'["group"] = host["group"]
    BY <1>1, <1>2, <2>1
  <2> HIDE DEF rest
  <2>3. SoundIs(rest)
    BY <1>2, <1>3, <2>2 DEF SoundIs
  <2>4. SoundIn(With({"app"}, "absent"))'
    BY <2>2, <2>3 DEF SoundIs, SoundIn, Valid, ValidAccount, AccountMatches,
                      There, Ours, rest
  <2> QED
    BY <1>4, <1>6, <2>4 DEF AppInPieces
<1> QED
  BY <1>5, <1>6

\* When every question is answered, no step of an uninstall, done, failed, half
\* done or stopped, makes of something it can remove something that the next
\* uninstall refuses, other than an app that rm -rf has left in pieces, and the
\* evidence of ownership stays to the end: the order of 730-790, with the
\* conditions it puts before each removal.
THEOREM RemovalPossible ==
  ASSUME Hearing
  PROVE  Spec => RemovalStaysPossible
<1> DEFINE Before1 == /\ op = "uninstall" /\ ~Idle /\ Sound
                      /\ Ours(host, "plist") \/ Remains = {"receipt"}
           After1 == /\ (Ours(host, "plist") \/ Finished)'
                     /\ Sound' \/ (Next1 = "remove_root" /\ AppInPieces')
<1>1. ASSUME Inv, [Next]_vars, Before1
      PROVE  After1
  <2>1. CASE host' = host
    BY <1>1, <2>1 DEF Sound, SoundIn, Valid, ValidAccount, AccountMatches, There, Ours,
       Finished, Remains
  <2>2. CASE host' # host
    <3>1. PICK mode \in Modes :
            /\ At(mode, Next1)
            /\ \/ /\ Next1 \in Changing /\ Due(Next1) /\ off' = off
                  /\ host' = With(Affected[Next1], Left(Next1))
               \/ host' \in HalfDone(Next1)
      BY <1>1, <2>2, HostChanges
    <3>2. mode \in Uninstalling /\ Next1 \in Does(mode)
      BY <1>1, <3>1 DEF At, ModeHolds
    <3>3. CASE /\ Next1 \in Changing /\ Due(Next1) /\ off' = off
               /\ host' = With(Affected[Next1], Left(Next1))
      <4>1. mode \in {"remove", "forget"}
        BY <3>2, <3>3 DEF Uninstalling, Does, Changing, Disabling
      <4> QED
        BY <1>1, <3>1, <3>3, <4>1, RemovalKeeps
    <3>4. CASE host' \in HalfDone(Next1)
      <4>1. Next1 \in {"create_user", "create_group", "remove_root"}
        BY <3>4 DEF HalfDone
      <4>2. Next1 = "remove_root"
        BY <3>2, <4>1 DEF Uninstalling, Does, Disabling, Removal
      <4> QED
        BY <1>1, <3>4, <4>2, HalfRemovalKeeps
    <3> QED
      BY <3>1, <3>3, <3>4
  <2> QED
    BY <2>1, <2>2
<1>2. Inv /\ [Next]_vars => [Before1 => After1]_vars
  BY <1>1
<1> QED
  BY <1>2, Invariance, PTL DEF Spec, RemovalStaysPossible

=============================================================================
