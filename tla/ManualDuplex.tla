---------------------------- MODULE ManualDuplex ----------------------------
(***************************************************************************)
(* The guided two-pass workflow of scripts/manual_duplex.py: the odd pages *)
(* are printed, the user turns the output stack over and confirms, and the *)
(* even pages are printed on the other sides.                              *)
(*                                                                         *)
(* The controller is a sequence of calls of the helper, each a request to  *)
(* the local service.  Any call may fail, with or without its effect; the  *)
(* service may be restarted between any two, which gives it another        *)
(* instance identity; a job may be cancelled or fail; and the controller   *)
(* may be killed.  A document that a run leaves behind goes on printing,   *)
(* and one that the service prints when it is cancelled does so until the  *)
(* service looks at the request.                                           *)
(*                                                                         *)
(* Abstractions:                                                           *)
(* - a sheet is the sequence of the pages printed on it, the tray and the  *)
(*   output are sequences of sheets; the rotation of the backs is left out;*)
(* - a raster file is the pages in it; that it is rendered completely      *)
(*   before the first job is not modelled;                                 *)
(* - jobs of other clients are left out: the user is told to keep them out;*)
(* - the user confirms only a stack that is as the prompt asks.            *)
(***************************************************************************)
EXTENDS Integers, Sequences

CONSTANTS
  Pages,        \* of the PDF
  MaxRuns,      \* invocations of the controller
  MaxRestarts   \* restarts of the service

ASSUME DuplexAssumption ==
  /\ Pages \in 2..200
  /\ MaxRuns \in Nat /\ MaxRestarts \in Nat

VARIABLES
  tray, out,     \* the paper
  epoch, jobs,   \* the service: its instance, its jobs by number
  \* the controller: the call to make next, the pass, the variables active and
  \* instance, whether the deadline has passed
  pc, pass, active, instance, late,
  runs,          \* invocations begun
  unreached      \* (ghost) could this run not ask for its cancellation?

paper      == <<tray, out>>
service    == <<epoch, jobs>>
controller == <<pc, pass, active, instance, late>>
vars       == <<paper, service, controller, runs, unreached>>

-----------------------------------------------------------------------------
(* The plan *)

Blank == 0

Sheets(n) == (n + 1) \div 2
Fronts(n) == [i \in 1..Sheets(n) |-> 2 * i - 1]

Backs(n) ==
  [i \in 1..Sheets(n) |->
     LET front == Fronts(n)[Sheets(n) + 1 - i]
     IN  IF front < n THEN front + 1 ELSE Blank]

Document(p) == IF p = "fronts" THEN Fronts(Pages) ELSE Backs(Pages)

\* A stack of sheets with these pages on their first sides
Printed(pages) == [i \in DOMAIN pages |-> <<pages[i]>>]
TurnedOver(stack) ==
  [i \in DOMAIN stack |-> stack[Len(stack) + 1 - i]]
Fresh == [i \in 1..Sheets(Pages) + 1 |-> <<>>]

-----------------------------------------------------------------------------
(* IPP job states *)

Missing == 0
Held == 4
Processing == 5
Canceled == 7
Aborted == 8
Completed == 9
Unfinished == {3, 4, 5, 6}
JobStates == Unfinished \union {Missing, Canceled, Aborted, Completed}

Job == [document: {"none", "fronts", "backs"}, left: Seq(0..Pages),
        state: JobStates, stopping: BOOLEAN, epoch: 0..MaxRestarts,
        run: 1..MaxRuns]

Checks == {"create_check", "send_check", "poll_check", "answer_check", "handler"}
Calls  == Checks \union {"identify", "create", "send", "poll", "front_state",
                         "cancel"}
Ended  == {"idle", "completed", "incomplete", "killed"}

TypeOK ==
  /\ tray \in Seq(Seq(0..Pages)) /\ out \in Seq(Seq(0..Pages))
  /\ epoch \in 0..MaxRestarts /\ jobs \in Seq(Job)
  /\ pc \in Calls \union Ended \union {"prompt", "answered"}
  /\ pass \in {"fronts", "backs"} /\ active \in 0..Len(jobs)
  /\ instance \in 0..MaxRestarts /\ late \in BOOLEAN
  /\ runs \in 0..MaxRuns /\ unreached \in BOOLEAN

Init ==
  /\ tray = Fresh /\ out = <<>> /\ epoch = 0 /\ jobs = <<>>
  /\ pc = "idle" /\ pass = "fronts" /\ active = 0 /\ instance = 0
  /\ late = FALSE /\ runs = 0 /\ unreached = FALSE

-----------------------------------------------------------------------------
(* The controller *)

Goto(label) == pc' = label /\ UNCHANGED <<pass, active, instance, late>>
Quiet == UNCHANGED <<paper, service, runs, unreached>>

\* Every invocation begins with fresh paper and a front pass.
Start ==
  /\ pc \in Ended /\ runs < MaxRuns
  /\ tray' = Fresh /\ out' = <<>> /\ runs' = runs + 1
  /\ pc' = "identify" /\ pass' = "fronts" /\ active' = 0 /\ late' = FALSE
  /\ unreached' = FALSE
  /\ UNCHANGED <<service, instance>>

Identify ==
  /\ pc = "identify"
  /\ instance' = epoch /\ pc' = "create_check"
  /\ UNCHANGED <<pass, active, late>> /\ Quiet

NextCall(check) ==
  CASE check = "create_check" -> "create"
    [] check = "send_check"   -> "send"
    [] check = "poll_check"   -> "poll"
    [] check = "answer_check" -> "front_state"
    [] check = "handler"      -> "cancel"

\* Mutant: check_instance is only made where it guards a request.
SameInstanceUnless(check) == epoch = instance \/ check = "send_check"

SameInstance(check) == epoch = instance

\* check_instance, and the same question in the except clause
CheckInstance ==
  /\ pc \in Checks /\ (pc = "handler" => active # 0)
  /\ Goto(CASE SameInstance(pc) -> NextCall(pc)
            [] ~SameInstance(pc) /\ pc = "handler" -> "incomplete"
            [] OTHER -> "handler")
  /\ Quiet

\* Nothing to cancel.
GiveUp == pc = "handler" /\ active = 0 /\ Goto("incomplete") /\ Quiet

NewJob == [document |-> "none", left |-> <<>>, state |-> Held,
           stopping |-> FALSE, epoch |-> epoch, run |-> runs]

\* An answer that is lost leaves a job nobody knows.
Create ==
  /\ pc = "create"
  /\ jobs' = Append(jobs, NewJob)
  /\ \/ active' = Len(jobs) + 1 /\ pc' = "send_check"
     \/ pc' = "handler" /\ UNCHANGED active
  /\ UNCHANGED <<paper, epoch, pass, instance, late, runs, unreached>>

\* The service may take the document although the answer is lost or late.
Send ==
  /\ pc = "send" /\ jobs[active].state = Held
  /\ jobs' = [jobs EXCEPT ![active].document = pass,
                          ![active].left = Document(pass),
                          ![active].state = Processing]
  /\ late' = FALSE
  /\ pc' \in {"poll_check", "handler"}
  /\ UNCHANGED <<paper, epoch, pass, active, instance, runs, unreached>>

Refused ==
  /\ pc = "send" /\ jobs[active].state # Held
  /\ Goto("handler") /\ Quiet

\* Mutant: the pass has no deadline.
AfterPollPatiently(state) ==
  CASE state = Completed  -> IF pass = "fronts" THEN "prompt" ELSE "completed"
    [] state \in Unfinished -> "poll_check"
    [] OTHER -> "handler"

\* Mutant: the backs follow the fronts without a prompt.
AfterPollUnasked(state) ==
  CASE state = Completed ->
         IF pass = "fronts" THEN "front_state" ELSE "completed"
    [] state \in Unfinished /\ ~late -> "poll_check"
    [] OTHER -> "handler"

\* Mutant: a job that is gone has been done.
AfterPollHopefully(state) ==
  CASE state \in {Completed, Missing} ->
         IF pass = "fronts" THEN "prompt" ELSE "completed"
    [] state \in Unfinished /\ ~late -> "poll_check"
    [] OTHER -> "handler"

AfterPoll(state) ==
  CASE state = Completed  -> IF pass = "fronts" THEN "prompt" ELSE "completed"
    [] state \in Unfinished /\ ~late -> "poll_check"
    [] OTHER -> "handler"

Poll ==
  /\ pc = "poll"
  /\ pc' = AfterPoll(jobs[active].state)
  /\ late' = (late /\ pc' # "prompt")
  /\ UNCHANGED <<pass, active, instance>> /\ Quiet

\* "Inspect that all fronts printed correctly."
Inspected == out = Printed(Fronts(Pages))

\* The user removes the unused paper, turns the stack over and says so.
Reinsert ==
  /\ pc = "prompt" /\ Inspected
  /\ tray' = TurnedOver(out) /\ out' = <<>>
  /\ Goto("answered")
  /\ UNCHANGED <<service, runs, unreached>>

\* Anything else than REINSERTED, end of input, or no answer in time
Decline ==
  /\ pc = "prompt" /\ Goto("handler") /\ Quiet

\* The clock is read again after the answer.
Accept ==
  /\ pc = "answered"
  /\ Goto(IF late THEN "handler" ELSE "answer_check") /\ Quiet

FrontState ==
  /\ pc = "front_state"
  /\ IF jobs[active].state = Completed
       THEN pc' = "create_check" /\ pass' = "backs"
       ELSE pc' = "handler" /\ UNCHANGED pass
  /\ UNCHANGED <<active, instance, late>> /\ Quiet

\* Mutant: the job of a pass that failed goes on.
CancelNothing == UNCHANGED jobs

\* Jobs are printed one after the other.
Current(j) ==
  /\ jobs[j].state = Processing
  /\ \A i \in 1..j - 1 : jobs[i].state # Processing

\* Cancel-Job ends a job that waits. The job that is printed is only told to
\* stop, and the controller does not wait until it has.
CancelActive ==
  jobs' = IF jobs[active].state \notin Unfinished
            THEN jobs
          ELSE IF Current(active)
            THEN [jobs EXCEPT ![active].stopping = TRUE]
            ELSE [jobs EXCEPT ![active].state = Canceled]

Cancel ==
  /\ pc = "cancel" /\ CancelActive /\ Goto("incomplete")
  /\ UNCHANGED <<paper, epoch, runs, unreached>>

\* The except clause, as far as it talks to the service
Cancelling == (pc = "handler" /\ active # 0) \/ pc = "cancel"

\* A helper that cannot reach the service, or a service that says no
CallFails ==
  /\ pc \in Calls /\ (pc = "handler" => active # 0)
  /\ Goto(IF Cancelling THEN "incomplete" ELSE "handler")
  /\ unreached' = (unreached \/ Cancelling)
  /\ UNCHANGED <<paper, service, runs>>

\* The timeout of the pass, or of the confirmation
Expire ==
  /\ pc \in {"poll_check", "poll", "prompt", "answered"} /\ ~late
  /\ late' = TRUE
  /\ UNCHANGED <<pc, pass, active, instance>> /\ Quiet

Kill ==
  /\ pc \notin Ended /\ Goto("killed")
  /\ unreached' = TRUE /\ UNCHANGED <<paper, service, runs>>

-----------------------------------------------------------------------------
(* The service and the printer *)

PrintSide ==
  \E j \in DOMAIN jobs :
    /\ Current(j) /\ jobs[j].left # <<>> /\ tray # <<>>
    /\ out' = Append(out, Append(Head(tray), Head(jobs[j].left)))
    /\ tray' = Tail(tray)
    /\ jobs' = [jobs EXCEPT ![j].left = Tail(@)]
    /\ UNCHANGED <<epoch, controller, runs, unreached>>

JobCompletes ==
  \E j \in DOMAIN jobs :
    /\ Current(j) /\ jobs[j].left = <<>> /\ ~jobs[j].stopping
    /\ jobs' = [jobs EXCEPT ![j].state = Completed]
    /\ UNCHANGED <<paper, epoch, controller, runs, unreached>>

\* The service looks at the request, after any number of further sides.
JobStops ==
  \E j \in DOMAIN jobs :
    /\ Current(j) /\ jobs[j].stopping
    /\ jobs' = [jobs EXCEPT ![j].state = Canceled]
    /\ UNCHANGED <<paper, epoch, controller, runs, unreached>>

\* Canceled by somebody else, aborted, or dropped from the history
JobChanges ==
  \E j \in DOMAIN jobs :
    /\ jobs' = [jobs EXCEPT ![j].state =
                  IF @ \in Unfinished THEN Aborted ELSE Missing]
    /\ UNCHANGED <<paper, epoch, controller, runs, unreached>>

\* What is finished may survive, nothing else does.
Restart ==
  /\ epoch < MaxRestarts /\ epoch' = epoch + 1
  /\ \E kept \in BOOLEAN :
       jobs' = [j \in DOMAIN jobs |->
                  IF kept /\ jobs[j].state \notin Unfinished
                    THEN jobs[j] ELSE [jobs[j] EXCEPT !.state = Missing]]
  /\ UNCHANGED <<paper, controller, runs, unreached>>

-----------------------------------------------------------------------------

Controller ==
  \/ Identify \/ CheckInstance \/ GiveUp \/ Create \/ Send \/ Refused
  \/ Poll \/ Accept \/ FrontState \/ Cancel \/ CallFails
  \/ (late /\ Decline)

Environment ==
  \/ Start \/ Reinsert \/ (~late /\ Decline) \/ Kill
  \/ PrintSide \/ JobCompletes \/ JobStops \/ JobChanges \/ Restart

Next == Controller \/ Expire \/ Environment

Spec == Init /\ [][Next]_vars

\* Every call has a timeout, and so has the prompt.
FairSpec == Spec /\ WF_vars(Controller) /\ WF_vars(Expire)

-----------------------------------------------------------------------------
(* Properties *)

\* The sheets of a complete document: an odd page and the even page after it,
\* and a blank behind the last page of an odd number (JOB-012).
Paired ==
  [i \in 1..Sheets(Pages) |->
     <<2 * i - 1, IF 2 * i <= Pages THEN 2 * i ELSE Blank>>]

\* "completed" is said only when the output is the document, whatever other
\* runs have left in the queue (manual_duplex.py:114; JOB-012: no partial
\* document may report success).
CompletedIsRight == pc = "completed" => out = TurnedOver(Paired)

\* Even pages reach the service only when the tray holds the inspected fronts
\* and nothing else, last sheet first (JOB-012: no back pass before the
\* confirmation; manual_duplex.py:90-97).
BacksMeetTheirFronts ==
  [][\A j \in DOMAIN jobs :
       jobs[j].document # "backs" /\ jobs'[j].document = "backs"
         => tray = TurnedOver(Printed(Fronts(Pages))) /\ out = <<>>]_vars

\* A document goes only to the instance the run has begun with, although the
\* service can be restarted between the question and the document: the job
\* number is obtained in between (manual_duplex.py:99-103).
DocumentsStayWithInstance ==
  [][\A j \in DOMAIN jobs :
       jobs[j].document = "none" /\ jobs'[j].document # "none"
         => epoch = instance]_vars

\* When a run has ended, every document it has sent is over or has been told to
\* stop, although the request for the document may have timed out while it was
\* printed (manual_duplex.py:63-67, 115-120). A run that was killed, or whose
\* last calls did not reach the service, leaves its document printing; what has
\* been told to stop may print further sides.
WhatPrintsIsToldToStop ==
  pc \in {"completed", "incomplete"} /\ ~unreached =>
    \A j \in DOMAIN jobs :
      jobs[j].run = runs /\ jobs[j].document # "none" =>
        jobs[j].state \notin Unfinished \/ jobs[j].stopping

\* "IDs from the prior instance are never canceled against the new service."
CancelStaysWithInstance == [][Cancel => epoch = instance]_vars

\* Every run ends, whatever the service does (manual_duplex.py:111, 130).
WorkflowEnds == (pc \notin Ended) ~> (pc \in Ended)

=============================================================================
