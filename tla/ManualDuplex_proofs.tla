------------------------ MODULE ManualDuplex_proofs ------------------------
(***************************************************************************)
(* Proofs about the two-pass workflow, for every number of pages, of       *)
(* invocations and of restarts.                                            *)
(***************************************************************************)
EXTENDS ManualDuplex, SequenceTheorems, TLAPS

-----------------------------------------------------------------------------
(* The plan *)

N == Sheets(Pages)
Whole == TurnedOver(Paired)
Stack == TurnedOver(Printed(Fronts(Pages)))

\* A function on 1..n is a sequence of length n.
LEMMA FunctionIsSequence ==
  ASSUME NEW S, NEW n \in Nat, NEW f \in [1..n -> S]
  PROVE  /\ f \in Seq(S)
         /\ Len(f) = n
         /\ DOMAIN f = 1..n
<1>1. f \in Seq(S)
  BY SeqDef
<1>2. DOMAIN f = 1..n
  OBVIOUS
<1>3. Len(f) \in Nat /\ DOMAIN f = 1..Len(f)
  BY <1>1, LenProperties
<1>4. Len(f) = n
  BY <1>2, <1>3
<1> QED
  BY <1>1, <1>2, <1>4

\* The number of sheets is positive, and the last sheet holds the last page.
LEMMA SheetsNat ==
  N \in Nat /\ 2 * N >= Pages /\ 2 * N <= Pages + 1
  BY DuplexAssumption DEF N, Sheets

\* The odd pages, in order
LEMMA FrontsType ==
  /\ Fronts(Pages) \in Seq(0..Pages)
  /\ Len(Fronts(Pages)) = N
  /\ DOMAIN Fronts(Pages) = 1..N
  /\ \A i \in 1..N : Fronts(Pages)[i] = 2 * i - 1
<1>1. \A i \in 1..N : 2 * i - 1 \in 0..Pages
  BY SheetsNat, DuplexAssumption
<1>2. Fronts(Pages) = [i \in 1..N |-> 2 * i - 1]
  BY DEF Fronts, N
<1>3. Fronts(Pages) \in [1..N -> 0..Pages]
  BY <1>1, <1>2
<1> QED
  BY <1>2, <1>3, FunctionIsSequence, SheetsNat

\* The even pages, last first, a blank for the missing one
LEMMA BacksType ==
  /\ Backs(Pages) \in Seq(0..Pages)
  /\ Len(Backs(Pages)) = N
  /\ DOMAIN Backs(Pages) = 1..N
  /\ \A i \in 1..N :
       Backs(Pages)[i] = IF 2 * (N + 1 - i) <= Pages THEN 2 * (N + 1 - i)
                                                    ELSE Blank
<1> DEFINE B(i) == IF 2 * (N + 1 - i) <= Pages THEN 2 * (N + 1 - i)
                                               ELSE Blank
<1>1. \A i \in 1..N : /\ N + 1 - i \in 1..N
                      /\ Fronts(Pages)[N + 1 - i] = 2 * (N + 1 - i) - 1
  BY SheetsNat, FrontsType
<1>2. \A i \in 1..N : Backs(Pages)[i] = B(i)
  <2> SUFFICES ASSUME NEW i \in 1..N PROVE Backs(Pages)[i] = B(i)
    OBVIOUS
  <2>1. Backs(Pages)[i] =
          IF Fronts(Pages)[N + 1 - i] < Pages THEN Fronts(Pages)[N + 1 - i] + 1
                                              ELSE Blank
    BY DEF Backs, N
  <2> QED
    BY <1>1, <2>1, SheetsNat, DuplexAssumption
<1>3. \A i \in 1..N : B(i) \in 0..Pages
  BY <1>1, SheetsNat, DuplexAssumption DEF Blank
<1>4. Backs(Pages) \in [1..N -> 0..Pages]
  <2>1. DOMAIN Backs(Pages) = 1..N
    BY DEF Backs, N
  <2>2. Backs(Pages) = [i \in 1..N |-> Backs(Pages)[i]]
    BY DEF Backs, N
  <2> QED
    BY <1>2, <1>3, <2>2
<1> QED
  BY <1>2, <1>4, FunctionIsSequence, SheetsNat

\* Both documents have a page for every sheet.
LEMMA DocumentType ==
  ASSUME NEW p
  PROVE  Document(p) \in Seq(0..Pages) /\ Len(Document(p)) = N
  BY FrontsType, BacksType DEF Document

\* The stack of the fronts, turned over
LEMMA StackType ==
  /\ Printed(Fronts(Pages)) \in Seq(Seq(0..Pages))
  /\ Stack \in Seq(Seq(0..Pages))
  /\ Len(Stack) = N
  /\ \A i \in 1..N : Stack[i] = <<2 * (N + 1 - i) - 1>>
<1>1. Printed(Fronts(Pages)) = [i \in 1..N |-> <<2 * i - 1>>]
  BY FrontsType DEF Printed
<1>2. \A i \in 1..N : <<2 * i - 1>> \in Seq(0..Pages)
  BY FrontsType, SheetsNat, DuplexAssumption
<1>3. Printed(Fronts(Pages)) \in [1..N -> Seq(0..Pages)]
  BY <1>1, <1>2
<1>4. /\ Printed(Fronts(Pages)) \in Seq(Seq(0..Pages))
      /\ Len(Printed(Fronts(Pages))) = N
      /\ DOMAIN Printed(Fronts(Pages)) = 1..N
  BY <1>3, FunctionIsSequence, SheetsNat
<1>5. Stack = [i \in 1..N |-> Printed(Fronts(Pages))[N + 1 - i]]
  BY <1>4 DEF Stack, TurnedOver
<1>6. \A i \in 1..N : N + 1 - i \in 1..N
  BY SheetsNat
<1>7. \A i \in 1..N : Stack[i] = <<2 * (N + 1 - i) - 1>>
  BY <1>1, <1>5, <1>6
<1>8. Stack \in [1..N -> Seq(0..Pages)]
  BY <1>3, <1>5, <1>6
<1> QED
  BY <1>4, <1>7, <1>8, FunctionIsSequence, SheetsNat

\* The document as it lies in the output, last sheet first
LEMMA WholeType ==
  /\ Whole \in Seq(Seq(0..Pages))
  /\ Len(Whole) = N
  /\ \A i \in 1..N :
       Whole[i] = <<2 * (N + 1 - i) - 1,
                    IF 2 * (N + 1 - i) <= Pages THEN 2 * (N + 1 - i)
                                                ELSE Blank>>
<1> DEFINE Sheet(i) == <<2 * i - 1, IF 2 * i <= Pages THEN 2 * i ELSE Blank>>
<1>1. Paired = [i \in 1..N |-> Sheet(i)]
  BY DEF Paired, N
<1>2. \A i \in 1..N : Sheet(i) \in Seq(0..Pages)
  <2> SUFFICES ASSUME NEW i \in 1..N PROVE Sheet(i) \in Seq(0..Pages)
    OBVIOUS
  <2>1. 2 * i - 1 \in 0..Pages
    BY SheetsNat, DuplexAssumption
  <2>2. (IF 2 * i <= Pages THEN 2 * i ELSE Blank) \in 0..Pages
    BY SheetsNat, DuplexAssumption DEF Blank
  <2> QED
    BY <2>1, <2>2
<1>3. Paired \in [1..N -> Seq(0..Pages)]
  BY <1>1, <1>2
<1>4. Len(Paired) = N /\ DOMAIN Paired = 1..N
  BY <1>3, FunctionIsSequence, SheetsNat
<1>5. Whole = [i \in 1..N |-> Paired[N + 1 - i]]
  BY <1>4 DEF Whole, TurnedOver
<1>6. \A i \in 1..N : N + 1 - i \in 1..N
  BY SheetsNat
<1>7. \A i \in 1..N : Whole[i] = Sheet(N + 1 - i)
  BY <1>1, <1>5, <1>6
<1>8. Whole \in [1..N -> Seq(0..Pages)]
  BY <1>3, <1>5, <1>6
<1> QED
  BY <1>7, <1>8, FunctionIsSequence, SheetsNat

\* Every front meets its own back: the backs are in the order of the stack
\* turned over, and an odd sheet keeps a blank one (manual_duplex.py:32-34).
THEOREM PlanIsRight ==
  \A i \in 1..N : Append(Stack[i], Backs(Pages)[i]) = Whole[i]
<1> SUFFICES ASSUME NEW i \in 1..N
             PROVE  Append(Stack[i], Backs(Pages)[i]) = Whole[i]
  OBVIOUS
<1> DEFINE back == IF 2 * (N + 1 - i) <= Pages THEN 2 * (N + 1 - i)
                                               ELSE Blank
<1>1. Stack[i] = <<2 * (N + 1 - i) - 1>> /\ Backs(Pages)[i] = back
  BY StackType, BacksType
<1>2. Whole[i] = <<2 * (N + 1 - i) - 1, back>>
  BY WholeType
<1>3. \A a, b : Append(<<a>>, b) = <<a, b>>
  <2> SUFFICES ASSUME NEW a, NEW b PROVE Append(<<a>>, b) = <<a, b>>
    OBVIOUS
  <2>1. <<a>> \in Seq({a, b}) /\ Len(<<a>>) = 1 /\ <<a>>[1] = a
    OBVIOUS
  <2>2. /\ Append(<<a>>, b) \in Seq({a, b})
        /\ Len(Append(<<a>>, b)) = 2
        /\ Append(<<a>>, b)[1] = a /\ Append(<<a>>, b)[2] = b
    BY <2>1, AppendProperties
  <2>3. /\ <<a, b>> \in Seq({a, b}) /\ Len(<<a, b>>) = 2
        /\ <<a, b>>[1] = a /\ <<a, b>>[2] = b
    OBVIOUS
  <2> DEFINE s == Append(<<a>>, b)
             t == <<a, b>>
  <2>4. \A k \in 1..2 : s[k] = t[k]
    BY <2>2, <2>3
  <2> HIDE DEF s, t
  <2>5. s \in Seq({a, b}) /\ t \in Seq({a, b}) /\ Len(s) = 2 /\ Len(t) = 2
    BY <2>2, <2>3 DEF s, t
  <2>6. s = t
    BY <2>4, <2>5, SeqEqual
  <2> QED
    BY <2>6 DEF s, t
<1> QED
  BY <1>1, <1>2, <1>3

-----------------------------------------------------------------------------
(* The inductive invariant *)

Busy(j) == jobs[j].state = Processing
Mine(j) == jobs[j].run = runs
Open(j) == jobs[j].state \in Unfinished
Sent(j) == jobs[j].document # "none"

\* A pass has a job, and between the passes there is the one of the fronts.
Working == pc \in {"send_check", "send", "poll_check", "poll", "prompt",
                   "answered", "answer_check", "front_state"}
\* The fronts have been reinserted, the backs not yet sent.
Backed == pass = "backs"
          /\ pc \in {"create_check", "create", "send_check", "send"}
Turning == pc \in {"answered", "answer_check", "front_state"} \/ Backed
Resting == pc \in {"prompt", "completed"} \/ Turning
\* The backs are being printed.
Polling == pass = "backs" /\ pc \in {"poll_check", "poll"}

\* The job of the run is the last one that has been created.
Newest ==
  /\ (Working \/ Backed) => (active = Len(jobs) /\ active # 0)
  /\ pc = "identify" => pass = "fronts"
  /\ pc = "cancel" => active # 0

\* A job that completed has printed everything, and nothing before it runs.
Queue ==
  \A j \in DOMAIN jobs : jobs[j].state = Completed =>
    jobs[j].left = <<>> /\ \A i \in 1..j - 1 : ~Busy(i)

\* Nothing prints from the end of the fronts to the document of the backs, and
\* when the document is complete.
Rest == Resting => \A j \in DOMAIN jobs : ~Busy(j)

\* So the paper stays as the user has put it.
Turned == Turning => tray = Stack /\ out = <<>>

\* The backs have the printer to themselves.
Alone == Polling => \A j \in DOMAIN jobs : Busy(j) => j = active

\* Sheets that are done are as they should be, the others will be.
Halfway(done, stack, left) ==
  /\ Len(done) + Len(stack) = N /\ Len(left) = Len(stack)
  /\ \A i \in 1..Len(done) : done[i] = Whole[i]
  /\ \A i \in 1..Len(stack) : Append(stack[i], left[i]) = Whole[Len(done) + i]

Half(left) == Halfway(out, tray, left)

Backing ==
  Polling /\ jobs[active].state \in {Processing, Completed} =>
    Half(jobs[active].left)

\* A job that can still take a document is of the present instance.
Ages ==
  /\ instance <= epoch
  /\ \A j \in DOMAIN jobs :
       jobs[j].epoch <= epoch /\ (Open(j) => jobs[j].epoch = epoch)
  /\ pc = "send_check" => instance <= jobs[active].epoch
  /\ pc = "send" => jobs[active].epoch = instance

\* The run has sent its documents to its instance, and none but that of the
\* active job is open.
Own ==
  /\ pc # "idle" => runs # 0
  /\ \A j \in DOMAIN jobs : jobs[j].run <= runs
  /\ pc = "identify" => \A j \in DOMAIN jobs : ~Mine(j)
  /\ \A j \in DOMAIN jobs : Mine(j) /\ Sent(j) => jobs[j].epoch = instance
  /\ pc \notin Ended =>
       \A j \in DOMAIN jobs : Mine(j) /\ Sent(j) /\ Open(j) =>
         j = active /\ pc \notin {"identify", "create_check", "create"}

IInv == /\ TypeOK /\ Newest /\ Queue /\ Rest /\ Turned /\ Alone /\ Backing
        /\ Ages /\ Own /\ CompletedIsRight /\ WhatPrintsIsToldToStop

\* The constants that the provers expand everywhere
USE DEF Missing, Held, Processing, Canceled, Aborted, Completed, Unfinished,
        JobStates

\* The paper a run begins with
LEMMA FreshType == Fresh \in Seq(Seq(0..Pages))
<1>1. N + 1 \in Nat /\ Fresh = [i \in 1..N + 1 |-> <<>>]
  BY SheetsNat DEF Fresh, N
<1>2. <<>> \in Seq(0..Pages)
  OBVIOUS
<1>3. Fresh \in [1..N + 1 -> Seq(0..Pages)]
  BY <1>1, <1>2
<1> QED
  BY <1>1, <1>3, FunctionIsSequence, ZenonT(60)

\* What TypeOK says of the jobs.
LEMMA JobFields ==
  ASSUME TypeOK
  PROVE  /\ Len(jobs) \in Nat /\ DOMAIN jobs = 1..Len(jobs)
         /\ \A j \in DOMAIN jobs :
              /\ jobs[j] \in Job
              /\ jobs[j].document \in {"none", "fronts", "backs"}
              /\ jobs[j].left \in Seq(0..Pages)
              /\ jobs[j].state \in JobStates /\ jobs[j].stopping \in BOOLEAN
              /\ jobs[j].epoch \in Nat /\ jobs[j].epoch \in 0..MaxRestarts
              /\ jobs[j].run \in Nat /\ jobs[j].run \in 1..MaxRuns
<1>1. jobs \in Seq(Job)
  BY DEF TypeOK
<1>2. Len(jobs) \in Nat /\ DOMAIN jobs = 1..Len(jobs)
  BY <1>1, LenProperties
<1>3. \A j \in DOMAIN jobs : jobs[j] \in Job
  BY <1>1, <1>2, ElementOfSeq
<1> QED
  BY <1>2, <1>3, DuplexAssumption DEF Job

\* What TypeOK says of the rest.
LEMMA Fields ==
  ASSUME TypeOK
  PROVE  /\ epoch \in Nat /\ epoch \in 0..MaxRestarts
         /\ instance \in Nat /\ instance \in 0..MaxRestarts
         /\ runs \in Nat /\ runs \in 0..MaxRuns
         /\ active \in Nat /\ active \in 0..Len(jobs)
         /\ pass \in {"fronts", "backs"}
         /\ pc \in Calls \union Ended \union {"prompt", "answered"}
<1> QED
  BY JobFields, DuplexAssumption DEF TypeOK

\* The invariant holds at first.
LEMMA InitInv == Init => IInv
<1> SUFFICES ASSUME Init PROVE IInv
  OBVIOUS
<1>1. <<>> \in Seq(Seq(0..Pages)) /\ <<>> \in Seq(Job) /\ Len(<<>>) = 0
  BY EmptySeq
<1>2. TypeOK
  <2>1. tray \in Seq(Seq(0..Pages)) /\ out \in Seq(Seq(0..Pages))
    BY <1>1, FreshType DEF Init
  <2>2. epoch \in 0..MaxRestarts /\ jobs \in Seq(Job)
    BY <1>1, DuplexAssumption DEF Init
  <2>3. pc \in Ended /\ pass \in {"fronts", "backs"} /\ active \in 0..Len(jobs)
    BY <1>1 DEF Init, Ended
  <2>4. instance \in 0..MaxRestarts /\ runs \in 0..MaxRuns
    BY DuplexAssumption DEF Init
  <2>5. late \in BOOLEAN /\ unreached \in BOOLEAN
    BY DEF Init
  <2> QED
    BY <2>1, <2>2, <2>3, <2>4, <2>5 DEF TypeOK
<1> QED
  BY <1>1, <1>2, JobFields, DuplexAssumption
     DEF Init, IInv, Newest, Queue, Rest, Turned, Alone, Backing, Ages,
         Own, CompletedIsRight, WhatPrintsIsToldToStop, Working, Backed, Turning,
         Resting, Polling, Ended

-----------------------------------------------------------------------------
(* The steps of the controller that leave the jobs and the paper alone *)

\* A run begins with nothing of its own in the queue.
LEMMA StartInv == IInv /\ Start => IInv'
<1> SUFFICES ASSUME IInv, Start PROVE IInv'
  OBVIOUS
<1>0. TypeOK
  BY DEF IInv
<1>1. <<>> \in Seq(Seq(0..Pages)) /\ Len(<<>>) = 0
  BY EmptySeq
<1>2. TypeOK'
  <2>1. tray' \in Seq(Seq(0..Pages)) /\ out' \in Seq(Seq(0..Pages))
    BY <1>1, FreshType DEF Start
  <2>2. /\ epoch' \in 0..MaxRestarts /\ jobs' \in Seq(Job)
        /\ instance' \in 0..MaxRestarts
    BY <1>0 DEF Start, TypeOK, service
  <2>3. /\ pc' \in Calls /\ pass' \in {"fronts", "backs"}
        /\ active' \in 0..Len(jobs')
    BY <1>0, JobFields DEF Start, Calls, service
  <2>4. runs' \in 0..MaxRuns
    BY <1>0, DuplexAssumption DEF Start, TypeOK
  <2>5. late' \in BOOLEAN /\ unreached' \in BOOLEAN
    BY DEF Start
  <2> QED
    BY <2>1, <2>2, <2>3, <2>4, <2>5 DEF TypeOK
<1>3. Own'
  <2>1. runs' = runs + 1 /\ runs \in Nat /\ jobs' = jobs /\ pc' = "identify"
    BY <1>0, DuplexAssumption DEF Start, TypeOK, service
  <2>2. \A j \in DOMAIN jobs : jobs[j].run <= runs /\ jobs[j].run \in Nat
    BY <1>0, JobFields DEF IInv, Own
  <2> QED
    BY <2>1, <2>2 DEF Own, Mine, Sent
<1>4. Queue' /\ Ages'
  BY DEF IInv, Start, Queue, Ages, Busy, Open, service
<1> QED
  BY <1>2, <1>3, <1>4
     DEF Start, IInv, Newest, Rest, Turned, Alone, Backing,
         CompletedIsRight, WhatPrintsIsToldToStop, Working, Backed, Turning,
         Resting, Polling

Still == UNCHANGED <<tray, out, epoch, jobs, runs>>

\* A run that gives up, or is on its way to cancelling
LEMMA ExitInv ==
  ASSUME IInv, Still, pc \notin Ended, UNCHANGED <<pass, active, instance>>,
         pc' \in {"handler", "cancel", "incomplete", "killed"},
         late' \in BOOLEAN, unreached' \in BOOLEAN,
         pc' = "cancel" => active # 0,
         pc' = "incomplete" => WhatPrintsIsToldToStop'
  PROVE  IInv'
<1>1. TypeOK'
  BY DEF IInv, TypeOK, Still, Calls, Checks, Ended
<1>2. Own'
  BY DEF IInv, Own, Still, Mine, Open, Sent, Ended
<1>3. Queue' /\ Ages'
  BY DEF IInv, Still, Queue, Ages, Busy, Open
<1> QED
  BY <1>1, <1>2, <1>3
     DEF IInv, Newest, Rest, Turned, Alone, Backing, CompletedIsRight,
         WhatPrintsIsToldToStop, Working, Backed, Turning, Resting, Polling

\* The instance is that of the moment.
LEMMA IdentifyInv == IInv /\ Identify => IInv'
<1> SUFFICES ASSUME IInv, Identify PROVE IInv'
  OBVIOUS
<1>1. /\ Still /\ UNCHANGED <<pass, active>>
      /\ pc = "identify" /\ pc' = "create_check" /\ instance' = epoch
  BY DEF Identify, Quiet, paper, service, Still
<1>2. UNCHANGED <<late, unreached>>
  BY DEF Identify, Quiet
<1>3. TypeOK /\ epoch \in Nat
  BY Fields DEF IInv
<1>4. TypeOK'
  BY <1>1, <1>2, <1>3 DEF TypeOK, Still, Calls, Checks
<1>5. Own'
  BY <1>1, <1>2 DEF IInv, Own, Still, Mine, Open, Sent, Ended
<1>6. Queue'
  BY <1>1 DEF IInv, Still, Queue, Busy
<1>7. Ages'
  <2>1. Ages /\ instance' <= epoch' /\ epoch' = epoch /\ jobs' = jobs
    BY <1>1, <1>3 DEF IInv, Still
  <2> QED
    BY <1>1, <2>1 DEF Ages, Open
<1>8. pass = "fronts" /\ pass' = "fronts"
  BY <1>1 DEF IInv, Newest
<1> QED
  BY <1>1, <1>4, <1>5, <1>6, <1>7, <1>8
     DEF IInv, Newest, Rest, Turned, Alone, Backing, CompletedIsRight,
         WhatPrintsIsToldToStop, Working, Backed, Turning, Resting, Polling

\* Between the question and the request the service may restart, but not back.
LEMMA CheckInstanceInv == IInv /\ CheckInstance => IInv'
<1> SUFFICES ASSUME IInv, CheckInstance PROVE IInv'
  OBVIOUS
<1>1. Still /\ UNCHANGED <<pass, active, instance>> /\ pc \in Checks
  BY DEF CheckInstance, Quiet, Goto, paper, service, Still
<1>2. UNCHANGED <<late, unreached>>
  BY DEF CheckInstance, Quiet, Goto
<1>3. TypeOK /\ epoch \in Nat /\ instance \in Nat
  BY Fields DEF IInv
<1>4. CASE epoch = instance /\ pc # "handler"
  <2>1. \/ pc = "create_check" /\ pc' = "create"
        \/ pc = "send_check" /\ pc' = "send"
        \/ pc = "poll_check" /\ pc' = "poll"
        \/ pc = "answer_check" /\ pc' = "front_state"
    BY <1>1, <1>4 DEF CheckInstance, SameInstance, Goto, NextCall, Checks
  <2>2. TypeOK'
    BY <1>1, <1>2, <1>3, <2>1 DEF TypeOK, Still, Calls, Checks
  <2>3. Own'
    BY <1>1, <1>2, <2>1 DEF IInv, Own, Still, Mine, Open, Sent, Ended
  <2>4. Queue'
    BY <1>1 DEF IInv, Still, Queue, Busy
  <2>5. Ages'
    <3>1. pc = "send_check" => jobs[active].epoch = instance
      <4> SUFFICES ASSUME pc = "send_check" PROVE jobs[active].epoch = instance
        OBVIOUS
      <4>1. active = Len(jobs) /\ active # 0
        BY DEF IInv, Newest, Working
      <4>2. Len(jobs) \in Nat /\ DOMAIN jobs = 1..Len(jobs)
        BY <1>3, JobFields
      <4>3. active \in DOMAIN jobs
        BY <4>1, <4>2
      <4>4. jobs[active].epoch \in Nat
        BY <1>3, <4>3, JobFields
      <4>5. instance <= jobs[active].epoch /\ jobs[active].epoch <= epoch
        BY <4>3 DEF IInv, Ages
      <4> QED
        BY <1>3, <1>4, <4>4, <4>5
    <3> QED
      BY <1>1, <2>1, <3>1 DEF IInv, Ages, Open, Still
  <2> QED
    BY <1>1, <2>1, <2>2, <2>3, <2>4, <2>5
       DEF IInv, Newest, Rest, Turned, Alone, Backing, Half, Busy,
           CompletedIsRight, WhatPrintsIsToldToStop, Working, Backed, Turning,
           Resting, Polling, Still
<1>5. CASE ~(epoch = instance /\ pc # "handler")
  <2>1. /\ pc' \in {"handler", "cancel", "incomplete"}
        /\ pc' = "incomplete" => epoch # instance
        /\ pc' = "cancel" => active # 0
    BY <1>1, <1>5 DEF CheckInstance, SameInstance, Goto, NextCall, Checks
  <2>2. WhatPrintsIsToldToStop' \/ pc' # "incomplete"
    <3> SUFFICES ASSUME pc' = "incomplete" PROVE WhatPrintsIsToldToStop'
      OBVIOUS
    <3>1. \A j \in DOMAIN jobs : ~(Mine(j) /\ Sent(j) /\ Open(j))
      BY <2>1 DEF IInv, Own, Ages
    <3> QED
      BY <1>1, <3>1 DEF WhatPrintsIsToldToStop, Still, Mine, Sent, Open
  <2>3. late' \in BOOLEAN /\ unreached' \in BOOLEAN
    BY <1>2, <1>3 DEF TypeOK
  <2>4. pc \notin Ended
    BY <1>1 DEF Checks, Ended
  <2> QED
    BY <1>1, <2>1, <2>2, <2>3, <2>4, ExitInv
<1> QED
  BY <1>4, <1>5

\* Without an active job there is none to cancel.
LEMMA GiveUpInv == IInv /\ GiveUp => IInv'
<1> SUFFICES ASSUME IInv, GiveUp PROVE IInv'
  OBVIOUS
<1>1. /\ Still /\ UNCHANGED <<pass, active, instance>>
      /\ pc = "handler" /\ active = 0 /\ pc' = "incomplete"
  BY DEF GiveUp, Quiet, Goto, paper, service, Still
<1>2. UNCHANGED <<late, unreached>>
  BY DEF GiveUp, Quiet, Goto
<1>3. TypeOK
  BY DEF IInv
<1>4. late' \in BOOLEAN /\ unreached' \in BOOLEAN
  BY <1>2, <1>3 DEF TypeOK
<1>5. WhatPrintsIsToldToStop'
  <2>1. \A j \in DOMAIN jobs : ~(Mine(j) /\ Sent(j) /\ Open(j))
    BY <1>1, <1>3, JobFields DEF IInv, Own, Ended
  <2> QED
    BY <1>1, <2>1 DEF WhatPrintsIsToldToStop, Still, Mine, Sent, Open
<1>6. pc \notin Ended
  BY <1>1 DEF Ended
<1> QED
  BY <1>1, <1>4, <1>5, <1>6, ExitInv

\* The ways out that leave the service as it is
LEMMA CallFailsInv == IInv /\ (Refused \/ Decline \/ CallFails \/ Kill) => IInv'
<1> SUFFICES ASSUME IInv, Refused \/ Decline \/ CallFails \/ Kill PROVE IInv'
  OBVIOUS
<1>1. /\ Still /\ UNCHANGED <<pass, active, instance>>
      /\ pc \notin Ended /\ pc' \in {"handler", "incomplete", "killed"}
  BY DEF Refused, Decline, CallFails, Kill, Quiet, Goto, paper, service, Still,
         Calls, Checks, Ended
<1>2. TypeOK
  BY DEF IInv
<1>3. UNCHANGED late /\ (pc' = "incomplete" => unreached')
  BY DEF Refused, Decline, CallFails, Cancelling, Kill, Goto
<1>4. unreached' \in BOOLEAN
  <2>1. unreached' = unreached \/ unreached' = (unreached \/ Cancelling)
        \/ unreached' = TRUE
    BY DEF Refused, Decline, CallFails, Kill, Quiet
  <2> QED
    BY <1>2, <2>1 DEF TypeOK
<1>5. late' \in BOOLEAN /\ unreached' \in BOOLEAN
  BY <1>2, <1>3, <1>4 DEF TypeOK
<1>6. pc' = "incomplete" => WhatPrintsIsToldToStop'
  BY <1>3 DEF WhatPrintsIsToldToStop
<1> QED
  BY <1>1, <1>3, <1>5, <1>6, ExitInv

\* The deadline only decides what is done next.
LEMMA ExpireInv == IInv /\ Expire => IInv'
<1> SUFFICES ASSUME IInv, Expire PROVE IInv'
  OBVIOUS
<1>1. Still /\ UNCHANGED <<pc, pass, active, instance>>
  BY DEF Expire, Quiet, paper, service, Still
<1>2. UNCHANGED unreached /\ late' = TRUE
  BY DEF Expire, Quiet
<1>3. TypeOK'
  BY <1>1, <1>2 DEF IInv, TypeOK, Still
<1>4. Own' /\ WhatPrintsIsToldToStop'
  BY <1>1, <1>2 DEF IInv, Own, WhatPrintsIsToldToStop, Still, Mine, Open, Sent
<1> QED
  BY <1>1, <1>3, <1>4
     DEF IInv, Newest, Queue, Rest, Turned, Alone, Backing, Half, Ages, Busy,
         Open, CompletedIsRight, Working, Backed, Turning, Resting, Polling,
         Still

\* The active job of a run that works
LEMMA ActiveJob ==
  ASSUME IInv, Working \/ Backed
  PROVE  active \in DOMAIN jobs /\ active = Len(jobs)
<1>1. active = Len(jobs) /\ active # 0
  BY DEF IInv, Newest
<1>2. Len(jobs) \in Nat /\ DOMAIN jobs = 1..Len(jobs)
  BY JobFields DEF IInv
<1> QED
  BY <1>1, <1>2

\* The fronts are complete or the document is: nothing can print any more.
LEMMA PollCompleted ==
  ASSUME IInv, pc = "poll", jobs[active].state = Completed
  PROVE  \A j \in DOMAIN jobs : ~Busy(j)
<1>1. active \in DOMAIN jobs /\ active = Len(jobs)
  BY ActiveJob DEF Working
<1>2. Len(jobs) \in Nat /\ DOMAIN jobs = 1..Len(jobs)
  BY JobFields DEF IInv
<1>3. \A i \in 1..active - 1 : ~Busy(i)
  BY <1>1 DEF IInv, Queue
<1>4. ~Busy(active)
  BY DEF Busy
<1>5. \A j \in DOMAIN jobs : j = active \/ j \in 1..active - 1
  BY <1>1, <1>2
<1> QED
  BY <1>3, <1>4, <1>5

\* When the backs are complete every sheet is.
LEMMA HalfDone ==
  ASSUME IInv, Half(<<>>)
  PROVE  out = Whole
<1>1. Len(tray) = 0 /\ Len(out) + Len(tray) = N
  BY EmptySeq DEF Half, Halfway
<1>2. out \in Seq(Seq(0..Pages)) /\ Len(out) \in Nat
  BY LenProperties DEF IInv, TypeOK
<1>3. Len(out) = N
  BY <1>1, <1>2, SheetsNat
<1>4. \A i \in 1..Len(out) : out[i] = Whole[i]
  BY DEF Half, Halfway
<1> QED
  BY <1>2, <1>3, <1>4, WholeType, SeqEqual

\* A pass ends when the printer is done with it and with all before it.
LEMMA PollInv == IInv /\ Poll => IInv'
<1> SUFFICES ASSUME IInv, Poll PROVE IInv'
  OBVIOUS
<1> DEFINE state == jobs[active].state
<1>1. /\ Still /\ UNCHANGED <<pass, active, instance>>
      /\ pc = "poll"
      /\ \/ pc' = "poll_check" /\ state \in Unfinished
         \/ pc' = "prompt" /\ state = Completed
         \/ pc' = "completed" /\ state = Completed /\ pass # "fronts"
         \/ pc' = "handler"
  BY DEF Poll, Quiet, paper, service, Still, AfterPoll
<1>2. UNCHANGED unreached /\ late' \in BOOLEAN
  BY DEF Poll, Quiet
<1>3. TypeOK /\ pass \in {"fronts", "backs"}
  BY Fields DEF IInv
<1>4. TypeOK'
  BY <1>1, <1>2, <1>3 DEF TypeOK, Still, Calls, Checks, Ended
<1>5. active \in DOMAIN jobs
  BY <1>1, ActiveJob DEF Working
<1>6. state = Completed => \A j \in DOMAIN jobs : ~Busy(j)
  BY <1>1, PollCompleted
<1>7. Own'
  BY <1>1, <1>2 DEF IInv, Own, Still, Mine, Open, Sent, Ended
<1>8. WhatPrintsIsToldToStop'
  <2>1. state = Completed =>
          \A j \in DOMAIN jobs : ~(Mine(j) /\ Sent(j) /\ Open(j))
    BY <1>1 DEF IInv, Own, Ended, Open
  <2> QED
    BY <1>1, <2>1 DEF WhatPrintsIsToldToStop, Still, Mine, Sent, Open
<1>9. CompletedIsRight'
  <2> SUFFICES ASSUME pc' = "completed" PROVE out = Whole
    BY <1>1 DEF CompletedIsRight, Whole, Still
  <2>1. Polling /\ state = Completed
    BY <1>1, <1>3 DEF Polling
  <2>2. Half(jobs[active].left) /\ jobs[active].left = <<>>
    BY <1>5, <2>1 DEF IInv, Backing, Queue
  <2> QED
    BY <2>2, HalfDone
<1>10. Queue' /\ Ages'
  BY <1>1 DEF IInv, Still, Queue, Busy, Ages, Open
<1>11. Rest'
  BY <1>1, <1>6 DEF Rest, Resting, Turning, Backed, Busy, Still
<1>12. Newest' /\ Turned' /\ Alone' /\ Backing'
  BY <1>1 DEF IInv, Newest, Turned, Alone, Backing, Half, Busy, Working,
              Backed, Turning, Polling, Still
<1> QED
  BY <1>4, <1>7, <1>8, <1>9, <1>10, <1>11, <1>12 DEF IInv

\* After the answer nothing has been printed.
LEMMA AcceptInv == IInv /\ Accept => IInv'
<1> SUFFICES ASSUME IInv, Accept PROVE IInv'
  OBVIOUS
<1>1. /\ Still /\ UNCHANGED <<pass, active, instance>>
      /\ pc = "answered" /\ pc' \in {"handler", "answer_check"}
  BY DEF Accept, Quiet, Goto, paper, service, Still
<1>2. UNCHANGED <<late, unreached>>
  BY DEF Accept, Quiet, Goto
<1>3. TypeOK
  BY DEF IInv
<1>4. TypeOK'
  BY <1>1, <1>2, <1>3 DEF TypeOK, Still, Calls, Checks
<1>5. Own' /\ WhatPrintsIsToldToStop'
  BY <1>1, <1>2
     DEF IInv, Own, WhatPrintsIsToldToStop, Still, Mine, Open, Sent, Ended
<1>6. Queue' /\ Ages'
  BY <1>1 DEF IInv, Still, Queue, Busy, Ages, Open
<1> QED
  BY <1>1, <1>4, <1>5, <1>6
     DEF IInv, Newest, Rest, Turned, Alone, Backing, Half, Busy,
         CompletedIsRight, Working, Backed, Turning, Resting, Polling, Still

\* The back pass begins when the job of the fronts is still completed.
LEMMA FrontStateInv == IInv /\ FrontState => IInv'
<1> SUFFICES ASSUME IInv, FrontState PROVE IInv'
  OBVIOUS
<1>1. /\ Still /\ UNCHANGED <<active, instance>> /\ pc = "front_state"
      /\ \/ /\ jobs[active].state = Completed
            /\ pc' = "create_check" /\ pass' = "backs"
         \/ pc' = "handler" /\ pass' = pass
  BY DEF FrontState, Quiet, paper, service, Still
<1>2. UNCHANGED <<late, unreached>>
  BY DEF FrontState, Quiet
<1>3. TypeOK
  BY DEF IInv
<1>4. TypeOK'
  BY <1>1, <1>2, <1>3 DEF TypeOK, Still, Calls, Checks
<1>5. Own'
  <2>1. jobs[active].state = Completed =>
          \A j \in DOMAIN jobs : ~(Mine(j) /\ Sent(j) /\ Open(j))
    BY <1>1 DEF IInv, Own, Ended, Open
  <2> QED
    BY <1>1, <1>2, <2>1 DEF IInv, Own, Still, Mine, Open, Sent, Ended
<1>6. Queue' /\ Ages' /\ WhatPrintsIsToldToStop'
  BY <1>1 DEF IInv, Still, Queue, Busy, Ages, Open, WhatPrintsIsToldToStop
<1> QED
  BY <1>1, <1>4, <1>5, <1>6
     DEF IInv, Newest, Rest, Turned, Alone, Backing, Half, Busy,
         CompletedIsRight, Working, Backed, Turning, Resting, Polling, Still

\* The fronts, inspected, become the tray.
LEMMA ReinsertInv == IInv /\ Reinsert => IInv'
<1> SUFFICES ASSUME IInv, Reinsert PROVE IInv'
  OBVIOUS
<1>1. /\ UNCHANGED <<epoch, jobs, runs, pass, active, instance>>
      /\ pc = "prompt" /\ pc' = "answered" /\ tray' = Stack /\ out' = <<>>
  BY DEF Reinsert, Inspected, Goto, service, Stack
<1>2. UNCHANGED <<late, unreached>>
  BY DEF Reinsert, Goto
<1>3. TypeOK
  BY DEF IInv
<1>4. TypeOK'
  <2>1. tray' \in Seq(Seq(0..Pages)) /\ out' \in Seq(Seq(0..Pages))
    BY <1>1, StackType, EmptySeq
  <2> QED
    BY <1>1, <1>2, <1>3, <2>1 DEF TypeOK
<1>5. Own' /\ WhatPrintsIsToldToStop'
  BY <1>1, <1>2
     DEF IInv, Own, WhatPrintsIsToldToStop, Mine, Open, Sent, Ended
<1>6. Queue' /\ Ages'
  BY <1>1 DEF IInv, Queue, Busy, Ages, Open
<1>7. Rest' /\ Turned'
  BY <1>1 DEF IInv, Rest, Resting, Busy, Turned, Stack
<1> QED
  BY <1>1, <1>4, <1>5, <1>6, <1>7
     DEF IInv, Newest, Alone, Backing, CompletedIsRight, Working, Backed,
         Polling

-----------------------------------------------------------------------------
(* Jobs that end *)

Changed(k, s) == [jobs EXCEPT ![k].state = s]

\* Changing the state of one job leaves the rest of the jobs as they are.
LEMMA StateChanges ==
  ASSUME TypeOK, NEW k \in DOMAIN jobs, NEW s \in JobStates,
         jobs' = Changed(k, s)
  PROVE  /\ jobs' \in Seq(Job) /\ Len(jobs') = Len(jobs)
         /\ DOMAIN jobs' = DOMAIN jobs
         /\ \A j \in DOMAIN jobs :
              /\ jobs'[j].document = jobs[j].document
              /\ jobs'[j].left = jobs[j].left
              /\ jobs'[j].stopping = jobs[j].stopping
              /\ jobs'[j].epoch = jobs[j].epoch
              /\ jobs'[j].run = jobs[j].run
              /\ jobs'[j].state = IF j = k THEN s ELSE jobs[j].state
<1>1. /\ Len(jobs) \in Nat /\ DOMAIN jobs = 1..Len(jobs)
      /\ \A j \in DOMAIN jobs : jobs[j] \in Job
  BY JobFields
<1> DEFINE job == [jobs[k] EXCEPT !.state = s]
<1>2. job \in Job
  BY <1>1 DEF Job
<1>3. jobs \in Seq(Job) /\ k \in 1..Len(jobs)
  BY <1>1 DEF TypeOK
<1>4. jobs' = [jobs EXCEPT ![k] = job]
  BY DEF Changed
<1>5. /\ job.document = jobs[k].document /\ job.left = jobs[k].left
      /\ job.stopping = jobs[k].stopping /\ job.epoch = jobs[k].epoch
      /\ job.run = jobs[k].run /\ job.state = s
  BY <1>1 DEF Job
<1> HIDE DEF job
<1>6. /\ jobs' \in Seq(Job) /\ Len(jobs') = Len(jobs)
      /\ \A j \in 1..Len(jobs) : jobs'[j] = IF j = k THEN job ELSE jobs[j]
  BY <1>2, <1>3, <1>4, ExceptSeq
<1>7. DOMAIN jobs' = DOMAIN jobs
  BY <1>4
<1> QED
  BY <1>1, <1>5, <1>6, <1>7

Told(k) == [jobs EXCEPT ![k].stopping = TRUE]

\* A job that is told to stop changes in nothing else.
LEMMA StopRequest ==
  ASSUME TypeOK, NEW k \in DOMAIN jobs,
         jobs' = Told(k)
  PROVE  /\ jobs' \in Seq(Job) /\ Len(jobs') = Len(jobs)
         /\ DOMAIN jobs' = DOMAIN jobs /\ jobs'[k].stopping
         /\ \A j \in DOMAIN jobs :
              /\ jobs'[j].document = jobs[j].document
              /\ jobs'[j].left = jobs[j].left
              /\ jobs[j].stopping => jobs'[j].stopping
              /\ jobs'[j].epoch = jobs[j].epoch
              /\ jobs'[j].run = jobs[j].run
              /\ jobs'[j].state = jobs[j].state
<1>1. /\ Len(jobs) \in Nat /\ DOMAIN jobs = 1..Len(jobs)
      /\ \A j \in DOMAIN jobs : jobs[j] \in Job
  BY JobFields
<1> DEFINE job == [jobs[k] EXCEPT !.stopping = TRUE]
<1>2. job \in Job
  BY <1>1 DEF Job
<1>3. jobs \in Seq(Job) /\ k \in 1..Len(jobs)
  BY <1>1 DEF TypeOK
<1>4. jobs' = [jobs EXCEPT ![k] = job]
  BY DEF Told
<1>5. /\ job.document = jobs[k].document /\ job.left = jobs[k].left
      /\ job.epoch = jobs[k].epoch
      /\ job.run = jobs[k].run /\ job.state = jobs[k].state
  BY <1>1 DEF Job
<1>6. job.stopping
  BY <1>1 DEF Job
<1> HIDE DEF job
<1>7. /\ jobs' \in Seq(Job) /\ Len(jobs') = Len(jobs)
      /\ \A j \in 1..Len(jobs) : jobs'[j] = IF j = k THEN job ELSE jobs[j]
  BY <1>2, <1>3, <1>4, ExceptSeq
<1>8. DOMAIN jobs' = DOMAIN jobs
  BY <1>4
<1>9. \A j \in DOMAIN jobs : jobs[j].stopping => jobs'[j].stopping
  BY <1>1, <1>6, <1>7
<1>10. jobs'[k].stopping
  BY <1>1, <1>6, <1>7
<1>11. \A j \in DOMAIN jobs :
         /\ jobs'[j].document = jobs[j].document
         /\ jobs'[j].left = jobs[j].left
         /\ jobs'[j].epoch = jobs[j].epoch
         /\ jobs'[j].run = jobs[j].run
         /\ jobs'[j].state = jobs[j].state
  BY <1>1, <1>5, <1>7
<1>12. jobs' \in Seq(Job) /\ Len(jobs') = Len(jobs)
  BY <1>7
<1>13. \A j \in DOMAIN jobs :
         /\ jobs'[j].document = jobs[j].document
         /\ jobs'[j].left = jobs[j].left
         /\ jobs[j].stopping => jobs'[j].stopping
         /\ jobs'[j].epoch = jobs[j].epoch
         /\ jobs'[j].run = jobs[j].run
         /\ jobs'[j].state = jobs[j].state
  BY <1>9, <1>11
<1> QED
  BY <1>8, <1>10, <1>12, <1>13

\* A job stays as it is, or it ends, and it completes only in its turn. What
\* has been told to stop stays told.
Fades(j) ==
  /\ jobs'[j].left = jobs[j].left /\ jobs'[j].document = jobs[j].document
  /\ jobs[j].stopping => jobs'[j].stopping
  /\ jobs'[j].epoch = jobs[j].epoch /\ jobs'[j].run = jobs[j].run
  /\ \/ jobs'[j].state = jobs[j].state
     \/ jobs'[j].state \in {Canceled, Aborted, Missing}
     \/ /\ jobs'[j].state = Completed /\ Busy(j) /\ jobs[j].left = <<>>
        /\ \A i \in 1..j - 1 : ~Busy(i)

\* What jobs that fade cannot disturb
LEMMA Fading ==
  ASSUME IInv, jobs' \in Seq(Job), Len(jobs') = Len(jobs),
         DOMAIN jobs' = DOMAIN jobs,
         \A j \in DOMAIN jobs : Fades(j),
         UNCHANGED <<paper, pass, active, instance, late, runs, unreached>>,
         pc' = pc \/ (pc = "cancel" /\ pc' = "incomplete"),
         epoch' \in 0..MaxRestarts,
         \/ epoch' = epoch
         \/ epoch' >= epoch /\ \A j \in DOMAIN jobs : ~Open(j)'
  PROVE  /\ TypeOK' /\ Newest' /\ Queue' /\ Rest' /\ Turned' /\ Alone'
         /\ Backing' /\ Ages' /\ Own' /\ CompletedIsRight'
         /\ (pc' = pc => WhatPrintsIsToldToStop')
<1> USE DEF paper
<1>1. TypeOK
  BY DEF IInv
<1>2. TypeOK'
  BY <1>1 DEF TypeOK, Ended
<1>3. \A j \in DOMAIN jobs : (Busy(j)' => Busy(j)) /\ (Open(j)' => Open(j))
  BY DEF Fades, Busy, Open
<1>4. Newest' /\ Turned' /\ CompletedIsRight' /\ Rest' /\ Alone'
  BY <1>3 DEF IInv, Newest, Turned, CompletedIsRight, Rest, Alone, Working,
              Backed, Turning, Resting, Polling
<1>5. Queue'
  <2> SUFFICES ASSUME NEW j \in DOMAIN jobs, jobs'[j].state = Completed
               PROVE  jobs'[j].left = <<>> /\ \A i \in 1..j - 1 : ~Busy(i)'
    BY DEF Queue
  <2>1. jobs[j].left = <<>> /\ \A i \in 1..j - 1 : ~Busy(i)
    BY DEF IInv, Queue, Fades
  <2>2. \A i \in 1..j - 1 : i \in DOMAIN jobs
    BY <1>1, JobFields
  <2>3. jobs'[j].left = jobs[j].left
    BY DEF Fades
  <2> QED
    BY <1>3, <2>1, <2>2, <2>3
<1>6. Backing'
  <2> SUFFICES ASSUME Polling', jobs'[active].state \in {Processing, Completed}
               PROVE  Half(jobs[active].left)'
    BY DEF Backing
  <2>1. Polling /\ active \in DOMAIN jobs
    BY ActiveJob DEF Polling, Working
  <2>2. /\ jobs[active].state \in {Processing, Completed}
        /\ (jobs[active].left)' = jobs[active].left
    BY <2>1 DEF Fades, Busy
  <2>3. Half(jobs[active].left)
    BY <2>1, <2>2 DEF IInv, Backing
  <2> QED
    BY <2>2, <2>3 DEF Half
<1>7. Ages'
  <2>1. epoch \in Nat /\ epoch' \in Nat /\ instance \in Nat /\ epoch <= epoch'
    BY <1>1, Fields, DuplexAssumption
  <2>2. instance' <= epoch'
    BY <2>1 DEF IInv, Ages
  <2>3. \A j \in DOMAIN jobs : jobs'[j].epoch <= epoch'
                               /\ (Open(j)' => jobs'[j].epoch = epoch')
    <3> SUFFICES ASSUME NEW j \in DOMAIN jobs
                 PROVE  jobs'[j].epoch <= epoch'
                        /\ (Open(j)' => jobs'[j].epoch = epoch')
      OBVIOUS
    <3>1. /\ jobs[j].epoch \in Nat /\ jobs[j].epoch <= epoch
          /\ Open(j) => jobs[j].epoch = epoch
      BY <1>1, JobFields DEF IInv, Ages
    <3>2. jobs'[j].epoch = jobs[j].epoch
      BY DEF Fades
    <3> QED
      BY <1>3, <2>1, <3>1, <3>2
  <2>4. pc' \in {"send_check", "send"} =>
          pc = pc' /\ jobs'[active].epoch = jobs[active].epoch
    BY ActiveJob DEF Working, Fades
  <2> QED
    BY <2>2, <2>3, <2>4 DEF IInv, Ages
<1>8. Own'
  <2>1. \A j \in DOMAIN jobs : /\ jobs'[j].run = jobs[j].run
                                /\ jobs'[j].epoch = jobs[j].epoch
                                /\ jobs'[j].document = jobs[j].document
    BY DEF Fades
  <2> QED
    BY <1>3, <2>1 DEF IInv, Own, Mine, Sent, Ended
<1>9. ASSUME pc' = pc PROVE WhatPrintsIsToldToStop'
  <2> SUFFICES ASSUME pc' \in {"completed", "incomplete"}, ~unreached',
                      NEW j \in DOMAIN jobs, jobs'[j].run = runs',
                      jobs'[j].document # "none", jobs'[j].state \in Unfinished
               PROVE  jobs'[j].stopping
    BY DEF WhatPrintsIsToldToStop
  <2>1. jobs[j].run = runs /\ jobs[j].document # "none"
    BY DEF Fades
  <2>2. jobs[j].state \in Unfinished
    BY DEF Fades, Busy
  <2>3. pc \in {"completed", "incomplete"} /\ ~unreached
    BY <1>9
  <2>4. jobs[j].stopping
    BY <2>1, <2>2, <2>3 DEF IInv, WhatPrintsIsToldToStop
  <2> QED
    BY <2>4 DEF Fades
<1> QED
  BY <1>2, <1>4, <1>5, <1>6, <1>7, <1>8, <1>9

\* The cancelled job was the only open one of its run.
LEMMA CancelInv == IInv /\ Cancel => IInv'
<1> SUFFICES ASSUME IInv, Cancel PROVE IInv'
  OBVIOUS
<1>1. UNCHANGED <<paper, epoch, pass, active, instance, runs>>
  BY DEF Cancel, Goto
<1>2. UNCHANGED <<late, unreached>>
  BY DEF Cancel, Goto
<1>3. pc = "cancel" /\ pc' = "incomplete" /\ CancelActive
  BY DEF Cancel, Goto
<1>4. TypeOK /\ epoch \in 0..MaxRestarts
  BY Fields DEF IInv
<1>5. active \in DOMAIN jobs
  BY <1>3, <1>4, JobFields, Fields DEF IInv, Newest
<1>6. /\ jobs' \in Seq(Job) /\ Len(jobs') = Len(jobs)
      /\ DOMAIN jobs' = DOMAIN jobs
      /\ \A j \in DOMAIN jobs : Fades(j)
      /\ jobs'[active].state \notin Unfinished \/ jobs'[active].stopping
  <2>1. CASE jobs[active].state \in Unfinished /\ ~Current(active)
    <3>1. jobs' = Changed(active, Canceled)
      BY <1>3, <2>1 DEF CancelActive, Changed
    <3>2. /\ jobs' \in Seq(Job) /\ Len(jobs') = Len(jobs)
          /\ DOMAIN jobs' = DOMAIN jobs
          /\ \A j \in DOMAIN jobs :
               /\ jobs'[j].document = jobs[j].document
               /\ jobs'[j].left = jobs[j].left
               /\ jobs'[j].stopping = jobs[j].stopping
               /\ jobs'[j].epoch = jobs[j].epoch
               /\ jobs'[j].run = jobs[j].run
               /\ jobs'[j].state = IF j = active THEN Canceled
                                                 ELSE jobs[j].state
      BY <1>4, <1>5, <3>1, StateChanges
    <3> QED
      BY <1>5, <3>2 DEF Fades
  <2>2. CASE jobs[active].state \notin Unfinished
    <3>1. jobs' = jobs
      BY <1>3, <2>2 DEF CancelActive
    <3> QED
      BY <1>4, <2>2, <3>1 DEF Fades, TypeOK
  <2>3. CASE jobs[active].state \in Unfinished /\ Current(active)
    <3>1. jobs' = Told(active)
      BY <1>3, <2>3 DEF CancelActive, Told
    <3> QED
      BY <1>4, <1>5, <3>1, StopRequest DEF Fades
  <2> QED
    BY <2>1, <2>2, <2>3
<1>7. /\ TypeOK' /\ Newest' /\ Queue' /\ Rest' /\ Turned' /\ Alone'
      /\ Backing' /\ Ages' /\ Own' /\ CompletedIsRight'
  BY <1>1, <1>2, <1>3, <1>4, <1>6, Fading
<1>8. WhatPrintsIsToldToStop'
  <2>1. \A j \in DOMAIN jobs : Mine(j) /\ Sent(j) /\ Open(j) => j = active
    BY <1>3 DEF IInv, Own, Ended
  <2>2. \A j \in DOMAIN jobs : jobs'[j].state \in Unfinished => Open(j)
    BY <1>6 DEF Fades, Open
  <2>3. \A j \in DOMAIN jobs : /\ jobs'[j].run = jobs[j].run
                                /\ jobs'[j].document = jobs[j].document
    BY <1>6 DEF Fades
  <2> QED
    BY <1>1, <1>6, <2>1, <2>2, <2>3 DEF WhatPrintsIsToldToStop, Mine, Sent
<1> QED
  BY <1>7, <1>8 DEF IInv

\* A job ends.
LEMMA JobEndsInv == IInv /\ (JobCompletes \/ JobStops \/ JobChanges) => IInv'
<1> SUFFICES ASSUME IInv, JobCompletes \/ JobStops \/ JobChanges PROVE IInv'
  OBVIOUS
<1>1. UNCHANGED <<paper, pass, active, instance, runs>>
      /\ pc' = pc /\ epoch' = epoch
  BY DEF JobCompletes, JobStops, JobChanges, controller
<1>0. UNCHANGED <<late, unreached>>
  BY DEF JobCompletes, JobStops, JobChanges, controller
<1>2. TypeOK /\ epoch \in 0..MaxRestarts
  BY Fields DEF IInv
<1>3. /\ jobs' \in Seq(Job) /\ Len(jobs') = Len(jobs)
      /\ DOMAIN jobs' = DOMAIN jobs
      /\ \A j \in DOMAIN jobs : Fades(j)
  <2>1. CASE JobCompletes
    <3>1. PICK k \in DOMAIN jobs :
            /\ Current(k) /\ jobs[k].left = <<>>
            /\ jobs' = Changed(k, Completed)
      BY <2>1 DEF JobCompletes, Changed
    <3>2. /\ jobs' \in Seq(Job) /\ Len(jobs') = Len(jobs)
          /\ DOMAIN jobs' = DOMAIN jobs
          /\ \A j \in DOMAIN jobs :
               /\ jobs'[j].document = jobs[j].document
               /\ jobs'[j].left = jobs[j].left
               /\ jobs'[j].stopping = jobs[j].stopping
               /\ jobs'[j].epoch = jobs[j].epoch
               /\ jobs'[j].run = jobs[j].run
               /\ jobs'[j].state = IF j = k THEN Completed ELSE jobs[j].state
      BY <1>2, <3>1, StateChanges
    <3> QED
      BY <3>1, <3>2 DEF Fades, Busy, Current
  <2>2. CASE JobChanges
    <3>1. PICK k \in DOMAIN jobs :
            jobs' = [jobs EXCEPT ![k].state =
                       IF @ \in Unfinished THEN Aborted ELSE Missing]
      BY <2>2 DEF JobChanges
    <3>2. PICK s \in {Aborted, Missing} : jobs' = Changed(k, s)
      BY <3>1 DEF Changed
    <3>3. /\ jobs' \in Seq(Job) /\ Len(jobs') = Len(jobs)
          /\ DOMAIN jobs' = DOMAIN jobs
          /\ \A j \in DOMAIN jobs :
               /\ jobs'[j].document = jobs[j].document
               /\ jobs'[j].left = jobs[j].left
               /\ jobs'[j].stopping = jobs[j].stopping
               /\ jobs'[j].epoch = jobs[j].epoch
               /\ jobs'[j].run = jobs[j].run
               /\ jobs'[j].state = IF j = k THEN s ELSE jobs[j].state
      BY <1>2, <3>2, StateChanges
    <3> QED
      BY <3>3 DEF Fades
  <2>3. CASE JobStops
    <3>1. PICK k \in DOMAIN jobs : jobs' = Changed(k, Canceled)
      BY <2>3 DEF JobStops, Changed
    <3>2. /\ jobs' \in Seq(Job) /\ Len(jobs') = Len(jobs)
          /\ DOMAIN jobs' = DOMAIN jobs
          /\ \A j \in DOMAIN jobs :
               /\ jobs'[j].document = jobs[j].document
               /\ jobs'[j].left = jobs[j].left
               /\ jobs'[j].stopping = jobs[j].stopping
               /\ jobs'[j].epoch = jobs[j].epoch
               /\ jobs'[j].run = jobs[j].run
               /\ jobs'[j].state = IF j = k THEN Canceled ELSE jobs[j].state
      BY <1>2, <3>1, StateChanges
    <3> QED
      BY <3>2 DEF Fades
  <2> QED
    BY <2>1, <2>2, <2>3
<1>4. /\ TypeOK' /\ Newest' /\ Queue' /\ Rest' /\ Turned' /\ Alone'
      /\ Backing' /\ Ages' /\ Own' /\ CompletedIsRight'
      /\ WhatPrintsIsToldToStop'
  BY <1>0, <1>1, <1>2, <1>3, Fading
<1> QED
  BY <1>4 DEF IInv

\* A restart ends every open job.
LEMMA RestartInv == IInv /\ Restart => IInv'
<1> SUFFICES ASSUME IInv, Restart PROVE IInv'
  OBVIOUS
<1>1. /\ UNCHANGED <<paper, pass, active, instance, runs>>
      /\ pc' = pc /\ epoch < MaxRestarts /\ epoch' = epoch + 1
  BY DEF Restart, controller
<1>0. UNCHANGED <<late, unreached>>
  BY DEF Restart, controller
<1>2. TypeOK /\ epoch \in Nat
  BY Fields DEF IInv
<1>3. epoch' \in 0..MaxRestarts /\ epoch' >= epoch
  BY <1>1, <1>2, DuplexAssumption
<1>4. PICK kept \in BOOLEAN :
        jobs' = [j \in DOMAIN jobs |->
                   IF kept /\ jobs[j].state \notin Unfinished
                     THEN jobs[j] ELSE [jobs[j] EXCEPT !.state = Missing]]
  BY DEF Restart
<1>5. /\ Len(jobs) \in Nat /\ DOMAIN jobs = 1..Len(jobs)
      /\ \A j \in DOMAIN jobs : jobs[j] \in Job
  BY <1>2, JobFields
<1>6. \A j \in DOMAIN jobs : [jobs[j] EXCEPT !.state = Missing] \in Job
  BY <1>5 DEF Job
<1>7. \A j \in DOMAIN jobs :
        \/ jobs'[j] = jobs[j] /\ jobs[j].state \notin Unfinished
        \/ jobs'[j] = [jobs[j] EXCEPT !.state = Missing]
  BY <1>4
<1>8. jobs' \in [1..Len(jobs) -> Job]
  BY <1>4, <1>5, <1>6
<1>9. /\ jobs' \in Seq(Job) /\ Len(jobs') = Len(jobs)
      /\ DOMAIN jobs' = DOMAIN jobs
  BY <1>5, <1>8, FunctionIsSequence
<1>10. \A j \in DOMAIN jobs : Fades(j) /\ jobs'[j].state \notin Unfinished
  <2> SUFFICES ASSUME NEW j \in DOMAIN jobs
               PROVE  Fades(j) /\ jobs'[j].state \notin Unfinished
    OBVIOUS
  <2>1. jobs[j] \in Job
    BY <1>5
  <2>2. CASE jobs'[j] = jobs[j] /\ jobs[j].state \notin Unfinished
    BY <2>2 DEF Fades
  <2>3. CASE jobs'[j] = [jobs[j] EXCEPT !.state = Missing]
    BY <2>1, <2>3 DEF Fades, Job
  <2> QED
    BY <1>7, <2>2, <2>3
<1>11. \A j \in DOMAIN jobs : ~Open(j)'
  BY <1>10 DEF Open
<1>12. /\ TypeOK' /\ Newest' /\ Queue' /\ Rest' /\ Turned' /\ Alone'
       /\ Backing' /\ Ages' /\ Own' /\ CompletedIsRight'
       /\ WhatPrintsIsToldToStop'
  BY <1>0, <1>1, <1>3, <1>9, <1>10, <1>11, Fading
<1> QED
  BY <1>12 DEF IInv

-----------------------------------------------------------------------------
(* Jobs that begin *)

\* A new job is the last one and prints nothing.
LEMMA CreateInv == IInv /\ Create => IInv'
<1> SUFFICES ASSUME IInv, Create PROVE IInv'
  OBVIOUS
<1>1. /\ UNCHANGED <<tray, out, epoch, pass, instance, runs>>
      /\ pc = "create" /\ jobs' = Append(jobs, NewJob)
      /\ \/ pc' = "send_check" /\ active' = Len(jobs) + 1
         \/ pc' = "handler" /\ active' = active
  BY DEF Create, paper
<1>2. late' = late /\ unreached' \in BOOLEAN
  BY DEF Create, IInv, TypeOK
<1>3. TypeOK
  BY DEF IInv
<1>4. /\ epoch \in Nat /\ epoch \in 0..MaxRestarts /\ runs \in 1..MaxRuns
      /\ instance \in Nat
  <2>1. runs # 0
    BY <1>1 DEF IInv, Own
  <2> QED
    BY <1>3, <2>1, Fields, DuplexAssumption
<1>5. /\ NewJob \in Job /\ NewJob.state = Held /\ NewJob.epoch = epoch
      /\ NewJob.run = runs /\ NewJob.document = "none"
  BY <1>4, EmptySeq DEF NewJob, Job
<1>6. /\ Len(jobs) \in Nat /\ DOMAIN jobs = 1..Len(jobs) /\ jobs \in Seq(Job)
  BY <1>3, JobFields DEF TypeOK
<1>7. /\ jobs' \in Seq(Job) /\ Len(jobs') = Len(jobs) + 1
      /\ \A j \in DOMAIN jobs : jobs'[j] = jobs[j]
      /\ jobs'[Len(jobs) + 1] = NewJob
  BY <1>1, <1>5, <1>6, AppendProperties
<1>8. DOMAIN jobs' = 1..Len(jobs) + 1
  BY <1>6, <1>7, LenProperties
<1>9. \A j \in DOMAIN jobs' : j \in DOMAIN jobs \/ j = Len(jobs) + 1
  BY <1>6, <1>8
<1> DEFINE new == Len(jobs) + 1
<1>10. new \in DOMAIN jobs' /\ jobs'[new].state = Held
       /\ jobs'[new].epoch = epoch /\ jobs'[new].run = runs
       /\ jobs'[new].document = "none"
  BY <1>5, <1>6, <1>7, <1>8
<1> HIDE DEF new
<1>11. \A j \in DOMAIN jobs' : j \in DOMAIN jobs \/ j = new
  BY <1>9 DEF new
<1>12. TypeOK'
  <2>1. active \in 0..Len(jobs) /\ active' \in 0..Len(jobs')
    BY <1>1, <1>3, <1>6, <1>7 DEF TypeOK
  <2>2. late' \in BOOLEAN /\ pc' \in Calls
    BY <1>1, <1>2, <1>3 DEF TypeOK, Calls, Checks
  <2> QED
    BY <1>1, <1>2, <1>3, <1>7, <2>1, <2>2 DEF TypeOK
<1>13. Newest' /\ Turned' /\ CompletedIsRight' /\ WhatPrintsIsToldToStop'
  BY <1>1, <1>6, <1>7
     DEF IInv, Newest, Turned, CompletedIsRight, WhatPrintsIsToldToStop, Working,
         Backed, Turning
<1>14. \A j \in DOMAIN jobs' : Busy(j)' => j \in DOMAIN jobs /\ Busy(j)
  BY <1>7, <1>10, <1>11 DEF Busy
<1>15. Queue'
  <2> SUFFICES ASSUME NEW j \in DOMAIN jobs', jobs'[j].state = Completed
               PROVE  jobs'[j].left = <<>> /\ \A i \in 1..j - 1 : ~Busy(i)'
    BY DEF Queue
  <2>1. j \in DOMAIN jobs /\ jobs'[j] = jobs[j]
    BY <1>7, <1>10, <1>11
  <2>2. jobs[j].left = <<>> /\ \A i \in 1..j - 1 : ~Busy(i)
    BY <2>1 DEF IInv, Queue
  <2>3. \A i \in 1..j - 1 : i \in DOMAIN jobs
    BY <1>6, <2>1
  <2> QED
    BY <1>7, <2>1, <2>2, <2>3 DEF Busy
<1>16. Rest' /\ Alone' /\ Backing'
  BY <1>1, <1>14
     DEF IInv, Rest, Alone, Backing, Resting, Turning, Backed, Polling
<1>17. Ages'
  <2>1. \A j \in DOMAIN jobs' : jobs'[j].epoch <= epoch
                                /\ (Open(j)' => jobs'[j].epoch = epoch)
    BY <1>4, <1>7, <1>10, <1>11 DEF IInv, Ages, Open
  <2>2. instance <= epoch
    BY DEF IInv, Ages
  <2>3. pc' = "send_check" => active' = new
    BY <1>1 DEF new
  <2> QED
    BY <1>1, <1>10, <2>1, <2>2, <2>3 DEF Ages
<1>18. Own'
  <2>1. \A j \in DOMAIN jobs' : jobs'[j].run <= runs
    BY <1>4, <1>7, <1>10, <1>11 DEF IInv, Own
  <2>2. \A j \in DOMAIN jobs : ~(Mine(j) /\ Sent(j) /\ Open(j))
    BY <1>1 DEF IInv, Own, Ended
  <2>3. \A j \in DOMAIN jobs' : ~(Mine(j)' /\ Sent(j)' /\ Open(j)')
    BY <1>1, <1>7, <1>10, <1>11, <2>2 DEF Mine, Sent, Open
  <2>4. \A j \in DOMAIN jobs' :
          Mine(j)' /\ Sent(j)' => jobs'[j].epoch = instance
    BY <1>1, <1>7, <1>10, <1>11 DEF IInv, Own, Mine, Sent
  <2> QED
    BY <1>1, <1>4, <2>1, <2>3, <2>4 DEF Own
<1> QED
  BY <1>12, <1>13, <1>15, <1>16, <1>17, <1>18 DEF IInv

\* The stack as it is reinserted is ready for the backs.
LEMMA HalfStarts ==
  ASSUME tray = Stack, out = <<>>
  PROVE  Half(Backs(Pages))
<1>1. Len(out) = 0
  BY EmptySeq
<1>2. Len(tray) = N /\ Len(Backs(Pages)) = N /\ N \in Nat
  BY StackType, BacksType, SheetsNat
<1>3. \A i \in 1..N : Append(tray[i], Backs(Pages)[i]) = Whole[Len(out) + i]
  BY <1>1, PlanIsRight
<1> QED
  BY <1>1, <1>2, <1>3 DEF Half, Halfway

\* The document goes to the last job, the backs to the turned stack.
LEMMA SendInv == IInv /\ Send => IInv'
<1> SUFFICES ASSUME IInv, Send PROVE IInv'
  OBVIOUS
<1>1. /\ UNCHANGED <<tray, out, epoch, pass, active, instance, runs>>
      /\ pc = "send" /\ pc' \in {"poll_check", "handler"}
      /\ jobs[active].state = Held
  BY DEF Send, paper
<1>2. late' = FALSE /\ unreached' \in BOOLEAN
  BY DEF Send, IInv, TypeOK
<1>3. TypeOK /\ pass \in {"fronts", "backs"}
  BY Fields DEF IInv
<1>4. active \in DOMAIN jobs /\ active = Len(jobs)
  BY <1>1, ActiveJob DEF Working
<1>5. /\ Len(jobs) \in Nat /\ DOMAIN jobs = 1..Len(jobs) /\ jobs \in Seq(Job)
      /\ jobs[active] \in Job
  BY <1>3, <1>4, JobFields DEF TypeOK
<1> DEFINE job == [jobs[active] EXCEPT !.document = pass,
                                       !.left = Document(pass),
                                       !.state = Processing]
<1>6. jobs' = [jobs EXCEPT ![active] = job]
  BY DEF Send
<1>7. /\ job \in Job /\ job.left = Document(pass) /\ job.state = Processing
      /\ job.epoch = jobs[active].epoch /\ job.run = jobs[active].run
  BY <1>3, <1>5, DocumentType DEF Job
<1> HIDE DEF job
<1>8. /\ jobs' \in Seq(Job) /\ Len(jobs') = Len(jobs)
      /\ DOMAIN jobs' = DOMAIN jobs
      /\ jobs'[active] = job
      /\ \A j \in DOMAIN jobs : j # active => jobs'[j] = jobs[j]
  BY <1>4, <1>5, <1>6, <1>7, ExceptSeq
<1>9. TypeOK'
  <2>1. pc' \in Calls
    BY <1>1 DEF Calls, Checks
  <2> QED
    BY <1>1, <1>2, <1>3, <1>8, <2>1 DEF TypeOK
<1>10. Newest' /\ Rest' /\ Turned' /\ CompletedIsRight' /\ WhatPrintsIsToldToStop'
  BY <1>1, <1>8
     DEF IInv, Newest, Rest, Turned, CompletedIsRight, WhatPrintsIsToldToStop,
         Working, Backed, Turning, Resting
<1>11. Queue'
  <2> SUFFICES ASSUME NEW j \in DOMAIN jobs, jobs'[j].state = Completed
               PROVE  jobs'[j].left = <<>> /\ \A i \in 1..j - 1 : ~Busy(i)'
    BY <1>8 DEF Queue
  <2>1. j # active /\ jobs'[j] = jobs[j]
    BY <1>7, <1>8
  <2>2. jobs[j].left = <<>> /\ \A i \in 1..j - 1 : ~Busy(i)
    BY <2>1 DEF IInv, Queue
  <2>3. \A i \in 1..j - 1 : i \in DOMAIN jobs /\ i # active
    BY <1>4, <1>5
  <2> QED
    BY <1>8, <2>1, <2>2, <2>3 DEF Busy
<1>12. ASSUME Polling'
       PROVE  /\ \A j \in DOMAIN jobs : Busy(j)' => j = active
              /\ Half(Backs(Pages)) /\ jobs'[active].left = Backs(Pages)
  <2>1. Backed /\ Turning /\ Resting /\ pass = "backs"
    BY <1>1, <1>12 DEF Polling, Backed, Turning, Resting
  <2>2. \A j \in DOMAIN jobs : ~Busy(j)
    BY <2>1 DEF IInv, Rest
  <2>3. tray = Stack /\ out = <<>>
    BY <2>1 DEF IInv, Turned
  <2>4. jobs'[active].left = Backs(Pages)
    BY <1>7, <1>8, <2>1 DEF Document
  <2> QED
    BY <1>8, <2>2, <2>3, <2>4, HalfStarts DEF Busy
<1>13. Alone'
  BY <1>1, <1>8, <1>12 DEF Alone
<1>14. Backing'
  <2> SUFFICES ASSUME Polling' PROVE Half(jobs[active].left)'
    BY DEF Backing
  <2>1. (jobs[active].left)' = Backs(Pages) /\ Half(Backs(Pages))
    BY <1>1, <1>12
  <2> QED
    BY <1>1, <2>1 DEF Half
<1>15. Ages'
  <2>1. jobs[active].epoch = epoch
    BY <1>1, <1>4 DEF IInv, Ages, Open
  <2> QED
    BY <1>1, <1>7, <1>8, <2>1 DEF IInv, Ages, Open
<1>16. Own'
  <2>1. \A j \in DOMAIN jobs : jobs'[j].run = jobs[j].run
    BY <1>7, <1>8
  <2>2. Open(active)
    BY <1>1 DEF Open
  <2>3. \A j \in DOMAIN jobs : jobs'[j].state \in Unfinished => Open(j)
    BY <1>8, <2>2 DEF Open
  <2>4. jobs'[active].epoch = instance
    BY <1>1, <1>7, <1>8 DEF IInv, Ages
  <2>5. pc' \notin {"idle", "identify", "create_check", "create"}
    BY <1>1
  <2> QED
    BY <1>1, <1>8, <2>1, <2>3, <2>4, <2>5 DEF IInv, Own, Mine, Sent, Open, Ended
<1> QED
  BY <1>9, <1>10, <1>11, <1>13, <1>14, <1>15, <1>16 DEF IInv

\* A printed side brings its sheet to what it should be.
LEMMA HalfSteps ==
  ASSUME NEW done \in Seq(Seq(0..Pages)), NEW stack \in Seq(Seq(0..Pages)),
         NEW left \in Seq(0..Pages), left # <<>>, stack # <<>>,
         Halfway(done, stack, left)
  PROVE  Halfway(Append(done, Append(Head(stack), Head(left))), Tail(stack),
                 Tail(left))
<1> DEFINE sheet == Append(Head(stack), Head(left))
           more == Append(done, sheet)
           fewer == Tail(stack)
<1>2. Head(left) \in 0..Pages /\ Len(Tail(left)) = Len(left) - 1
  BY HeadTailProperties
<1>3. /\ Head(stack) \in Seq(0..Pages) /\ Len(Tail(stack)) = Len(stack) - 1
      /\ \A i \in 1..Len(stack) - 1 : Tail(stack)[i] = stack[i + 1]
  BY HeadTailProperties
<1>4. \A i \in 1..Len(left) - 1 : Tail(left)[i] = left[i + 1]
  BY <1>2, HeadTailProperties
<1>5. sheet \in Seq(0..Pages)
  BY <1>2, <1>3, AppendProperties
<1>6. /\ Len(more) = Len(done) + 1
      /\ \A i \in 1..Len(done) : more[i] = done[i]
      /\ more[Len(done) + 1] = sheet
  BY <1>5, AppendProperties
<1>7. Len(stack) \in Nat /\ Len(done) \in Nat /\ Len(left) \in Nat /\ Len(stack) # 0
  BY LenProperties, EmptySeq
<1>8. Head(stack) = stack[1] /\ Head(left) = left[1]
  BY <1>7
<1>9. sheet = Whole[Len(done) + 1]
  BY <1>7, <1>8 DEF Halfway
<1>10. /\ Len(more) + Len(fewer) = N /\ Len(Tail(left)) = Len(fewer)
  <2>1. Len(done) + Len(stack) = N /\ Len(left) = Len(stack)
    BY DEF Halfway
  <2>2. Len(more) = Len(done) + 1 /\ Len(fewer) = Len(stack) - 1
    BY <1>3, <1>6
  <2>3. Len(Tail(left)) = Len(left) - 1
    BY <1>2
  <2>4. Len(Tail(left)) = Len(fewer)
    BY <2>1, <2>2, <2>3
  <2>5. (Len(done) + 1) + (Len(stack) - 1) = Len(done) + Len(stack)
    BY <1>7
  <2> HIDE DEF more, fewer
  <2> QED
    BY <2>1, <2>2, <2>4, <2>5
<1>11. \A i \in 1..Len(more) : more[i] = Whole[i]
  <2>1. \A i \in 1..Len(more) : i \in 1..Len(done) \/ i = Len(done) + 1
    BY <1>6, <1>7
  <2> QED
    BY <1>6, <1>9, <2>1 DEF Halfway
<1>12. \A i \in 1..Len(fewer) :
         Append(fewer[i], Tail(left)[i]) = Whole[Len(more) + i]
  <2> SUFFICES ASSUME NEW i \in 1..Len(fewer)
               PROVE  Append(fewer[i], Tail(left)[i]) = Whole[Len(more) + i]
    OBVIOUS
  <2>1. i + 1 \in 1..Len(stack) /\ i \in 1..Len(stack) - 1 /\ Len(left) = Len(stack)
    BY <1>3, <1>7 DEF Halfway
  <2>2. fewer[i] = stack[i + 1] /\ Tail(left)[i] = left[i + 1]
    BY <1>3, <1>4, <2>1
  <2>3. Append(stack[i + 1], left[i + 1]) = Whole[Len(done) + (i + 1)]
    BY <2>1 DEF Halfway
  <2>4. Len(done) + (i + 1) = Len(more) + i
    BY <1>6, <1>7, <2>1
  <2> QED
    BY <2>2, <2>3, <2>4
<1> QED
  BY <1>10, <1>11, <1>12 DEF Halfway

\* While the backs print, every side is one of theirs.
LEMMA PrintSideInv == IInv /\ PrintSide => IInv'
<1> SUFFICES ASSUME IInv, PrintSide PROVE IInv'
  OBVIOUS
<1>1. PICK k \in DOMAIN jobs :
        /\ Current(k) /\ jobs[k].left # <<>> /\ tray # <<>>
        /\ out' = Append(out, Append(Head(tray), Head(jobs[k].left)))
        /\ tray' = Tail(tray)
        /\ jobs' = [jobs EXCEPT ![k].left = Tail(@)]
  BY DEF PrintSide
<1>2. UNCHANGED <<epoch, pc, pass, active, instance, runs>>
  BY DEF PrintSide, controller
<1>3. UNCHANGED <<late, unreached>>
  BY DEF PrintSide, controller
<1>4. TypeOK
  BY DEF IInv
<1>5. /\ Len(jobs) \in Nat /\ DOMAIN jobs = 1..Len(jobs) /\ jobs \in Seq(Job)
      /\ jobs[k] \in Job /\ jobs[k].left \in Seq(0..Pages)
  BY <1>4, JobFields DEF TypeOK
<1>6. /\ Head(jobs[k].left) \in 0..Pages /\ Tail(jobs[k].left) \in Seq(0..Pages)
  BY <1>1, <1>5, HeadTailProperties
<1> DEFINE job == [jobs[k] EXCEPT !.left = Tail(jobs[k].left)]
<1>7. jobs' = [jobs EXCEPT ![k] = job]
  BY <1>1
<1>8. /\ job \in Job /\ job.left = Tail(jobs[k].left)
      /\ job.state = jobs[k].state /\ job.document = jobs[k].document
      /\ job.stopping = jobs[k].stopping
      /\ job.epoch = jobs[k].epoch /\ job.run = jobs[k].run
  BY <1>5, <1>6 DEF Job
<1> HIDE DEF job
<1>9. /\ jobs' \in Seq(Job) /\ Len(jobs') = Len(jobs)
      /\ DOMAIN jobs' = DOMAIN jobs
      /\ jobs'[k] = job
      /\ \A j \in DOMAIN jobs : j # k => jobs'[j] = jobs[j]
  BY <1>5, <1>7, <1>8, ExceptSeq
<1>10. \A j \in DOMAIN jobs :
         /\ jobs'[j].state = jobs[j].state /\ jobs'[j].epoch = jobs[j].epoch
         /\ jobs'[j].run = jobs[j].run
         /\ jobs'[j].document = jobs[j].document
         /\ jobs'[j].stopping = jobs[j].stopping
  BY <1>8, <1>9
<1>11. TypeOK'
  <2>1. /\ Head(tray) \in Seq(0..Pages) /\ tray' \in Seq(Seq(0..Pages))
        /\ out \in Seq(Seq(0..Pages))
    BY <1>1, <1>4, HeadTailProperties DEF TypeOK
  <2>2. Append(Head(tray), Head(jobs[k].left)) \in Seq(0..Pages)
    BY <1>6, <2>1, AppendProperties
  <2>3. out' \in Seq(Seq(0..Pages))
    BY <1>1, <2>1, <2>2, AppendProperties
  <2> QED
    BY <1>2, <1>3, <1>4, <1>9, <2>1, <2>3 DEF TypeOK
<1>12. Busy(k) /\ ~Resting
  BY <1>1 DEF IInv, Rest, Current, Busy
<1>13. Newest' /\ Rest' /\ Turned' /\ Alone' /\ CompletedIsRight'
  BY <1>2, <1>9, <1>10, <1>12
     DEF IInv, Newest, Rest, Turned, Alone, CompletedIsRight, Busy, Working,
         Backed, Turning, Resting, Polling
<1>14. Queue'
  <2> SUFFICES ASSUME NEW j \in DOMAIN jobs, jobs'[j].state = Completed
               PROVE  jobs'[j].left = <<>> /\ \A i \in 1..j - 1 : ~Busy(i)'
    BY <1>9 DEF Queue
  <2>1. j # k /\ jobs'[j] = jobs[j]
    BY <1>9, <1>10, <1>12 DEF Busy
  <2>2. jobs[j].left = <<>> /\ \A i \in 1..j - 1 : ~Busy(i)
    BY <2>1 DEF IInv, Queue
  <2>3. \A i \in 1..j - 1 : i \in DOMAIN jobs
    BY <1>5
  <2> QED
    BY <1>10, <2>1, <2>2, <2>3 DEF Busy
<1>15. Backing'
  <2> SUFFICES ASSUME Polling, jobs[active].state \in {Processing, Completed}
               PROVE  Half(jobs[active].left)'
    <3>1. Polling' => Polling
      BY <1>2 DEF Polling
    <3>2. Polling => (jobs[active].state)' = jobs[active].state
      BY <1>2, <1>10, ActiveJob DEF Polling, Working
    <3> QED
      BY <3>1, <3>2 DEF Backing
  <2>1. k = active
    BY <1>12 DEF IInv, Alone
  <2>2. Half(jobs[k].left)
    BY <2>1 DEF IInv, Backing
  <2>3. /\ tray \in Seq(Seq(0..Pages)) /\ out \in Seq(Seq(0..Pages))
        /\ Halfway(out, tray, jobs[k].left)
    BY <1>4, <2>2 DEF TypeOK, Half
  <2>4. Halfway(out', tray', Tail(jobs[k].left))
    BY <1>1, <1>5, <2>3, HalfSteps
  <2>5. (jobs[active].left)' = Tail(jobs[k].left)
    BY <1>2, <1>8, <1>9, <2>1
  <2> QED
    BY <2>4, <2>5 DEF Half
<1>16. Ages' /\ Own' /\ WhatPrintsIsToldToStop'
  <2>1. pc \in {"send_check", "send"} => active \in DOMAIN jobs
    BY ActiveJob DEF Working
  <2>2. Ages'
    BY <1>2, <1>9, <1>10, <2>1 DEF IInv, Ages, Open
  <2>3. Own' /\ WhatPrintsIsToldToStop'
    BY <1>2, <1>3, <1>9, <1>10
       DEF IInv, Own, WhatPrintsIsToldToStop, Mine, Open, Sent, Ended
  <2> QED
    BY <2>2, <2>3
<1> QED
  BY <1>11, <1>13, <1>14, <1>15, <1>16 DEF IInv

-----------------------------------------------------------------------------
(* The theorems *)

\* A step of something else
LEMMA StutterInv == IInv /\ UNCHANGED vars => IInv'
<1> SUFFICES ASSUME IInv, UNCHANGED vars PROVE IInv'
  OBVIOUS
<1>1. UNCHANGED <<tray, out, epoch, jobs, pc, pass, active, instance, runs>>
  BY DEF vars, paper, service, controller
<1>2. UNCHANGED <<late, unreached>>
  BY DEF vars, controller
<1>3. TypeOK'
  BY <1>1, <1>2 DEF IInv, TypeOK
<1>4. Own' /\ WhatPrintsIsToldToStop'
  BY <1>1, <1>2 DEF IInv, Own, WhatPrintsIsToldToStop, Mine, Open, Sent
<1> QED
  BY <1>1, <1>3, <1>4
     DEF IInv, Newest, Queue, Rest, Turned, Alone, Backing, Half, Ages, Busy,
         Open, CompletedIsRight, Working, Backed, Turning, Resting, Polling

\* The strengthening of the safety properties is inductive.
LEMMA NextInv == IInv /\ [Next]_vars => IInv'
<1> SUFFICES ASSUME IInv, [Next]_vars PROVE IInv'
  OBVIOUS
<1>1. CASE Identify
  BY <1>1, IdentifyInv
<1>2. CASE CheckInstance
  BY <1>2, CheckInstanceInv
<1>3. CASE GiveUp
  BY <1>3, GiveUpInv
<1>4. CASE Create
  BY <1>4, CreateInv
<1>5. CASE Send
  BY <1>5, SendInv
<1>6. CASE Refused \/ Decline \/ CallFails \/ Kill
  BY <1>6, CallFailsInv
<1>7. CASE Poll
  BY <1>7, PollInv
<1>8. CASE Accept
  BY <1>8, AcceptInv
<1>9. CASE FrontState
  BY <1>9, FrontStateInv
<1>10. CASE Cancel
  BY <1>10, CancelInv
<1>11. CASE Expire
  BY <1>11, ExpireInv
<1>12. CASE Start
  BY <1>12, StartInv
<1>13. CASE Reinsert
  BY <1>13, ReinsertInv
<1>14. CASE PrintSide
  BY <1>14, PrintSideInv
<1>15. CASE JobCompletes \/ JobStops \/ JobChanges
  BY <1>15, JobEndsInv
<1>16. CASE Restart
  BY <1>16, RestartInv
<1>17. CASE UNCHANGED vars
  BY <1>17, StutterInv
<1> QED
  BY <1>1, <1>2, <1>3, <1>4, <1>5, <1>6, <1>7, <1>8, <1>9, <1>10, <1>11,
     <1>12, <1>13, <1>14, <1>15, <1>16, <1>17 DEF Next, Controller, Environment

\* So it holds always.
LEMMA Invariance == Spec => []IInv
<1> QED
  BY InitInv, NextInv, PTL DEF Spec

\* The variables of the workflow, the service and the paper have their types.
THEOREM TypeCorrect == Spec => []TypeOK
<1>1. IInv => TypeOK
  BY DEF IInv
<1> QED
  BY <1>1, Invariance, PTL

\* A run that says "completed" has produced the document, for every number of
\* pages and whatever has failed before (manual_duplex.py:114).
THEOREM CompletedRight == Spec => []CompletedIsRight
<1>1. IInv => CompletedIsRight
  BY DEF IInv
<1> QED
  BY <1>1, Invariance, PTL

\* A run that has ended has told the document that it leaves printing to stop,
\* also when the answer to the document was lost or late, unless it was killed
\* or could not reach the service (manual_duplex.py:63-67, 115-120).
THEOREM PrintingToldToStop == Spec => []WhatPrintsIsToldToStop
<1>1. IInv => WhatPrintsIsToldToStop
  BY DEF IInv
<1> QED
  BY <1>1, Invariance, PTL

\* Only send-document gives a job its document.
LEMMA OnlySend ==
  ASSUME IInv, [Next]_vars
  PROVE  Send \/ \A j \in DOMAIN jobs : jobs'[j].document = jobs[j].document
<1> DEFINE Same == \A j \in DOMAIN jobs : jobs'[j].document = jobs[j].document
<1>1. TypeOK /\ jobs \in Seq(Job)
      /\ Len(jobs) \in Nat /\ DOMAIN jobs = 1..Len(jobs)
      /\ \A j \in DOMAIN jobs : jobs[j] \in Job
  BY JobFields DEF IInv, TypeOK
<1>2. ASSUME UNCHANGED jobs PROVE Same
  BY <1>2
<1>3. CASE Create
  <2>1. jobs' = Append(jobs, NewJob)
    BY <1>3 DEF Create
  <2>2. \A j \in 1..Len(jobs) : jobs'[j] = jobs[j]
    BY <1>1, <2>1
  <2> QED
    BY <1>1, <2>2
<1>4. ASSUME NEW k \in DOMAIN jobs, NEW s \in JobStates, jobs' = Changed(k, s)
      PROVE  Same
  BY <1>1, <1>4, StateChanges
<1>5. CASE Cancel
  <2>1. active \in DOMAIN jobs
    BY <1>1, <1>5, Fields DEF Cancel, IInv, Newest
  <2>2. \/ jobs' = Changed(active, Canceled)
        \/ jobs' = Told(active)
        \/ UNCHANGED jobs
    BY <1>5 DEF Cancel, CancelActive, Changed, Told
  <2>3. CASE jobs' = Told(active)
    BY <1>1, <2>1, <2>3, StopRequest
  <2> QED
    BY <1>2, <1>4, <2>1, <2>2, <2>3
<1>11. CASE JobStops
  <2>1. PICK k \in DOMAIN jobs : jobs' = Changed(k, Canceled)
    BY <1>11 DEF JobStops, Changed
  <2> QED
    BY <1>4, <2>1
<1>6. CASE JobCompletes
  <2>1. PICK k \in DOMAIN jobs : jobs' = Changed(k, Completed)
    BY <1>6 DEF JobCompletes, Changed
  <2> QED
    BY <1>4, <2>1
<1>7. CASE JobChanges
  <2>1. PICK k \in DOMAIN jobs :
          jobs' = [jobs EXCEPT ![k].state =
                     IF @ \in Unfinished THEN Aborted ELSE Missing]
    BY <1>7 DEF JobChanges
  <2>2. PICK s \in {Aborted, Missing} : jobs' = Changed(k, s)
    BY <2>1 DEF Changed
  <2> QED
    BY <1>4, <2>2
<1>8. CASE PrintSide
  <2>1. PICK k \in DOMAIN jobs : jobs' = [jobs EXCEPT ![k].left = Tail(@)]
    BY <1>8 DEF PrintSide
  <2>2. \A j \in DOMAIN jobs :
          \/ jobs'[j] = jobs[j]
          \/ jobs'[j] = [jobs[j] EXCEPT !.left = Tail(jobs[j].left)]
    BY <2>1
  <2>3. \A j \in DOMAIN jobs :
          [jobs[j] EXCEPT !.left = Tail(jobs[j].left)].document
            = jobs[j].document
    BY <1>1 DEF Job
  <2> QED
    BY <2>2, <2>3
<1>9. CASE Restart
  <2>1. \A j \in DOMAIN jobs :
          jobs'[j] = jobs[j] \/ jobs'[j] = [jobs[j] EXCEPT !.state = Missing]
    BY <1>9 DEF Restart
  <2>2. \A j \in DOMAIN jobs :
          [jobs[j] EXCEPT !.state = Missing].document = jobs[j].document
    BY <1>1 DEF Job
  <2> QED
    BY <2>1, <2>2
<1>10. \/ Send \/ Create \/ Cancel \/ JobCompletes \/ JobStops \/ JobChanges
       \/ PrintSide \/ Restart \/ UNCHANGED jobs
  BY DEF Next, Controller, Environment, Identify, CheckInstance, GiveUp, Refused,
         Poll, Accept, FrontState, CallFails, Expire, Start, Reinsert, Decline,
         Kill, Quiet, service, vars
<1> QED
  BY <1>2, <1>3, <1>5, <1>6, <1>7, <1>8, <1>9, <1>10, <1>11

\* What a step that sends a document changes
LEMMA SendDocument ==
  ASSUME IInv, Send
  PROVE  /\ \A j \in DOMAIN jobs :
              jobs'[j].document = IF j = active THEN pass ELSE jobs[j].document
         /\ epoch = instance /\ (pass = "backs" => Turning)
<1>1. pc = "send" /\ jobs[active].state = Held
      /\ jobs' = [jobs EXCEPT ![active].document = pass,
                              ![active].left = Document(pass),
                              ![active].state = Processing]
  BY DEF Send
<1>2. active \in DOMAIN jobs
  BY <1>1, ActiveJob DEF Working
<1>3. \A j \in DOMAIN jobs : jobs[j] \in Job
  BY JobFields DEF IInv
<1>4. \A j \in DOMAIN jobs :
        jobs'[j].document = IF j = active THEN pass ELSE jobs[j].document
  BY <1>1, <1>2, <1>3 DEF Job
<1>5. epoch = instance
  BY <1>1, <1>2 DEF IInv, Ages, Open
<1> QED
  BY <1>1, <1>4, <1>5 DEF Turning, Backed

\* Even pages are sent only to the inspected fronts, turned over
\* (manual_duplex.py:90-97).
THEOREM BacksMeet == Spec => BacksMeetTheirFronts
<1> DEFINE A == \A j \in DOMAIN jobs :
                  jobs[j].document # "backs" /\ jobs'[j].document = "backs"
                    => tray = TurnedOver(Printed(Fronts(Pages))) /\ out = <<>>
<1>1. IInv /\ [Next]_vars => A
  <2> SUFFICES ASSUME IInv, [Next]_vars, NEW j \in DOMAIN jobs,
                      jobs[j].document # "backs", jobs'[j].document = "backs"
               PROVE  tray = TurnedOver(Printed(Fronts(Pages))) /\ out = <<>>
    OBVIOUS
  <2>1. Send
    BY OnlySend
  <2>2. Turning
    BY <2>1, SendDocument
  <2> QED
    BY <2>2 DEF IInv, Turned, Stack
<1>2. IInv /\ [Next]_vars => [A]_vars
  BY <1>1
<1> HIDE DEF A
<1>3. Spec => [][A]_vars
  BY <1>2, Invariance, PTL DEF Spec
<1> QED
  BY <1>3 DEF A, BacksMeetTheirFronts

\* A document is sent only to the instance the run has identified
\* (manual_duplex.py:99-103).
THEOREM DocumentsStay == Spec => DocumentsStayWithInstance
<1> DEFINE A == \A j \in DOMAIN jobs :
                  jobs[j].document = "none" /\ jobs'[j].document # "none"
                    => epoch = instance
<1>1. IInv /\ [Next]_vars => A
  <2> SUFFICES ASSUME IInv, [Next]_vars, NEW j \in DOMAIN jobs,
                      jobs[j].document = "none", jobs'[j].document # "none"
               PROVE  epoch = instance
    OBVIOUS
  <2>0. jobs'[j].document # jobs[j].document
    OBVIOUS
  <2>1. Send
    BY <2>0, OnlySend
  <2> QED
    BY <2>1, SendDocument
<1>2. IInv /\ [Next]_vars => [A]_vars
  BY <1>1
<1> HIDE DEF A
<1>3. Spec => [][A]_vars
  BY <1>2, Invariance, PTL DEF Spec
<1> QED
  BY <1>3 DEF A, DocumentsStayWithInstance

=============================================================================
