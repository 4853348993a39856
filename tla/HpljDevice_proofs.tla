-------------------------- MODULE HpljDevice_proofs --------------------------
(***************************************************************************)
(* Proofs about HpljDevice for every value of its constants: type          *)
(* correctness, the handle discipline, that uploads and print bytes only   *)
(* flow where FW-002 and FW-003 allow them, and that DeviceContract is     *)
(* implemented.                                                            *)
(*                                                                         *)
(* The safety properties are not inductive by themselves: what a callback  *)
(* may do depends on where its call stands, and what the device state says *)
(* about the handle has to hold in the middle of a call as well.  Control  *)
(* and HandleHistory say so.                                               *)
(***************************************************************************)
EXTENDS HpljDevice, TLAPS

\* Where a call stands determines the device state and the handle.
Control ==
  /\ op = "none" <=> at = "idle"
  /\ at \in {"discover", "open", "claim", "identify"}
       => op \in {"connect", "bootstrap"} /\ state = "DISCONNECTED"
  /\ at \in {"upload", "verify"}
       => op = "bootstrap" /\ state \in {"PRE_FIRMWARE", "AWAITING_FIRMWARE"}
  /\ at = "upload" => ~uploadCompleted
  /\ at = "idle" => ~uploadCompleted
  /\ at \in {"write", "reread", "status"} => state = "READY"
  /\ at = "reread" <=> op = "revalidate"
  /\ at = "status" <=> op = "get_status"
  /\ at = "write" <=> op \in {"send", "send_once"}
  /\ at = "claim" => link = "open"
  /\ at = "identify" => link = "claimed"
  /\ op # "none" => attempt > 0 /\ moved = 0

\* What the device state says about the handle and its last identity.
HandleHistory ==
  /\ state \in {"PRE_FIRMWARE", "AWAITING_FIRMWARE"}
       => link = "claimed" /\ (seen = NoVersion \/ at = "verify")
  /\ state = "FIRMWARE_PRESENT"
       => link = "claimed" /\ seen = version /\ version # NoVersion
  /\ link \in {"none", "open"} => seen = Unread
  /\ at = "identify" => seen = Unread

\* What a live handle says about the printer it reaches.
LiveHandle ==
  /\ live => printer.attached
  /\ live /\ ~printer.unnoticed /\ seen \in Versions
       => printer.running = seen
  /\ live /\ seen # Unread => printer.kind = "reference"
  /\ live /\ seen = NoVersion /\ printer.running # NoVersion => printer.loaded

IInv == /\ TypeOK /\ Control /\ HandleHistory /\ LiveHandle
        /\ HandleDiscipline /\ ReadyIsVouched /\ TransferResultIsHonest

-----------------------------------------------------------------------------
(* Type correctness *)

\* TypeOK in parts that one leaf can settle: the provers take records and
\* Boolean values one at a time.
TypeData ==
  /\ state \in DeviceStates
  /\ version \in Versions \union {NoVersion}
  /\ op \in Ops \union {"none"}
  /\ at \in Steps \union {"idle"}
  /\ attempt \in 0..MaxAttempts
  /\ link \in {"none", "open", "claimed"}
  /\ seen \in Versions \union {NoVersion, Unread}
  /\ moved \in 0..ChunkBytes + 1

TypeFlags ==
  opened \in BOOLEAN /\ uploadCompleted \in BOOLEAN /\ live \in BOOLEAN

LEMMA TypeParts ==
  TypeOK <=> TypeData /\ TypeFlags /\ outcome \in Outcomes /\ printer \in Printers
BY DEF TypeOK, TypeData, TypeFlags

LEMMA OutcomeFields ==
  ASSUME NEW name \in Ops \union {"none"}, NEW category \in Categories,
         NEW retry \in Retries, NEW bytes \in 0..ChunkBytes + 1,
         NEW attempts \in 0..MaxAttempts
  PROVE  [op |-> name, category |-> category, retry |-> retry,
          bytes |-> bytes, attempts |-> attempts] \in Outcomes
BY DEF Outcomes

LEMMA TypeInit == Init => TypeOK
<1> SUFFICES ASSUME Init PROVE TypeOK
  OBVIOUS
<1>1. TypeData
  BY DeviceAssumption DEF Init, TypeData, DeviceStates, Steps
<1>2. TypeFlags
  BY DEF Init, TypeFlags
<1>3. outcome \in Outcomes
  <2>1. 0 \in 0..ChunkBytes + 1 /\ 0 \in 0..MaxAttempts
    BY DeviceAssumption
  <2>2. "NONE" \in Categories /\ "SAFE_AUTOMATIC" \in Retries
    BY DEF Categories, Retries
  <2> QED
    BY <2>1, <2>2, OutcomeFields DEF Init
<1>4. printer \in Printers
  BY DEF Init
<1> QED
  BY <1>1, <1>2, <1>3, <1>4, TypeParts

\* What happens to the printer changes nothing on the host but whether the
\* handle is alive, and can only kill it.
LEMMA EnvironmentStep ==
  Environment => /\ UNCHANGED <<state, opened, version, op, at, attempt,
                                uploadCompleted, outcome, link, seen, moved>>
                 /\ live' \in {FALSE, live}
BY DEF Environment, Attach, Detach, PowerCycle, Boot, device, call, transport

\* The bytes counted by a transfer stay in bounds because it writes again only
\* before the first one.
LEMMA DataStep == TypeOK /\ Control /\ [Next]_vars => TypeData'
<1> SUFFICES ASSUME TypeOK, Control, [Next]_vars PROVE TypeData'
  OBVIOUS
<1>0. at # "idle" => moved = 0
  BY DEF Control
<1> USE <1>0, DeviceAssumption DEF TypeOK, TypeData, DeviceStates, Ops, Steps, Close,
      Return, Continue, device, call, transport
<1>1. CASE Discover
  BY <1>1 DEF Discover, ConnectFailed, AnotherAttempt, LastAttempt
<1>2. CASE Open
  BY <1>2 DEF Open, ConnectFailed, AnotherAttempt, LastAttempt, Fault
<1>3. CASE Claim
  BY <1>3 DEF Claim, ConnectFailed, AnotherAttempt, LastAttempt, Fault
<1>4. CASE Identify
  BY <1>4 DEF Identify, Connected, Resume, ConnectFailed, AnotherAttempt, LastAttempt,
     Fault, Matches, Printers
<1>5. CASE Upload
  BY <1>5 DEF Upload, UploadFailed, AnotherAttempt, LastAttempt, Fault
<1>6. CASE Verify
  BY <1>6 DEF Verify, AnotherAttempt, LastAttempt, Fault, Matches, Printers
<1>7. CASE Write
  BY <1>7 DEF Write, Transfers, Transfer, Ambiguous, Accepted, CutShort,
     LostUnsent, Lost, TryAgain, GiveUp, SendLimit, OrIncomplete
<1>8. CASE Reread
  BY <1>8 DEF Reread, Fault, Disconnected, Matches, Printers
<1>9. CASE ReadStatus
  BY <1>9 DEF ReadStatus, Fault, Disconnected
<1>10. CASE Connect
  BY <1>10 DEF Connect, Begin
<1>11. ASSUME NEW withImage \in BOOLEAN,
              NEW v \in {ExpectedVersion, NoVersion},
              Bootstrap(withImage, v)
       PROVE  TypeData'
  BY <1>11 DEF Bootstrap, Begin, Settle
<1>12. ASSUME NEW name \in {"send", "send_once"},
              Send(name)
       PROVE  TypeData'
  BY <1>12 DEF Send, Begin, Settle
<1>13. CASE Revalidate
  BY <1>13 DEF Revalidate, Begin
<1>14. CASE GetStatus
  BY <1>14 DEF GetStatus, Begin
<1>15. ASSUME NEW name \in Ops,
              Refuse(name)
       PROVE  TypeData'
  BY <1>15 DEF Refuse, Settle
<1>16. CASE Disconnect
  BY <1>16 DEF Disconnect, Disconnected
<1>17. CASE Environment
  BY <1>17, EnvironmentStep
<1>18. CASE UNCHANGED vars
  BY <1>18 DEF vars
<1> QED
  BY <1>1, <1>2, <1>3, <1>4, <1>5, <1>6, <1>7, <1>8, <1>9, <1>10, <1>11,
     <1>12, <1>13, <1>14, <1>15, <1>16, <1>17, <1>18
     DEF Next, Callback, Serving

LEMMA FlagsStep == TypeOK /\ [Next]_vars => TypeFlags'
<1> SUFFICES ASSUME TypeOK, [Next]_vars PROVE TypeFlags'
  OBVIOUS
<1> USE DEF TypeOK, TypeFlags, Close, Return, Continue, device, call, transport
<1>1. CASE Discover
  BY <1>1 DEF Discover, ConnectFailed, AnotherAttempt, LastAttempt
<1>2. CASE Open
  BY <1>2 DEF Open, ConnectFailed, AnotherAttempt, LastAttempt, Fault
<1>3. CASE Claim
  BY <1>3 DEF Claim, ConnectFailed, AnotherAttempt, LastAttempt, Fault
<1>4. CASE Identify
  BY <1>4 DEF Identify, Connected, Resume, ConnectFailed, AnotherAttempt, LastAttempt,
     Fault, Matches, Printers
<1>5. CASE Upload
  BY <1>5 DEF Upload, UploadFailed, AnotherAttempt, LastAttempt, Fault
<1>6. CASE Verify
  BY <1>6 DEF Verify, AnotherAttempt, LastAttempt, Fault, Matches, Printers
<1>7. CASE Write
  BY <1>7 DEF Write, Transfers, Transfer, Ambiguous, Accepted, CutShort,
     LostUnsent, Lost, TryAgain, GiveUp, SendLimit, OrIncomplete
<1>8. CASE Reread
  BY <1>8 DEF Reread, Fault, Disconnected, Matches, Printers
<1>9. CASE ReadStatus
  BY <1>9 DEF ReadStatus, Fault, Disconnected
<1>10. CASE Connect
  BY <1>10 DEF Connect, Begin
<1>11. ASSUME NEW withImage \in BOOLEAN,
              NEW v \in {ExpectedVersion, NoVersion},
              Bootstrap(withImage, v)
       PROVE  TypeFlags'
  BY <1>11 DEF Bootstrap, Begin, Settle
<1>12. ASSUME NEW name \in {"send", "send_once"},
              Send(name)
       PROVE  TypeFlags'
  BY <1>12 DEF Send, Begin, Settle
<1>13. CASE Revalidate
  BY <1>13 DEF Revalidate, Begin
<1>14. CASE GetStatus
  BY <1>14 DEF GetStatus, Begin
<1>15. ASSUME NEW name \in Ops,
              Refuse(name)
       PROVE  TypeFlags'
  BY <1>15 DEF Refuse, Settle
<1>16. CASE Disconnect
  BY <1>16 DEF Disconnect, Disconnected
<1>17. CASE Environment
  BY <1>17 DEF Environment, Attach, Detach, PowerCycle, Boot
<1>18. CASE UNCHANGED vars
  BY <1>18 DEF vars
<1> QED
  BY <1>1, <1>2, <1>3, <1>4, <1>5, <1>6, <1>7, <1>8, <1>9, <1>10, <1>11,
     <1>12, <1>13, <1>14, <1>15, <1>16, <1>17, <1>18
     DEF Next, Callback, Serving

\* A step that changes the last result returns from a call or settles one.
Returns == \E c \in Categories, r \in Retries, b \in 0..ChunkBytes + 1 :
             Return(c, r, b)
Settles == \E name \in Ops, c \in Categories, r \in Retries : Settle(name, c, r)

LEMMA OutcomeChange ==
  TypeOK /\ [Next]_vars => UNCHANGED outcome \/ Returns \/ Settles
<1> SUFFICES ASSUME TypeOK, [Next]_vars
             PROVE  UNCHANGED outcome \/ Returns \/ Settles
  OBVIOUS
<1> USE DeviceAssumption DEF Returns, Settles, Continue, Categories, Retries, Faults, Ops
<1>1. CASE Discover
  BY <1>1 DEF Discover, ConnectFailed, AnotherAttempt, LastAttempt
<1>2. CASE Open
  BY <1>2 DEF Open, ConnectFailed, AnotherAttempt, LastAttempt, Fault
<1>3. CASE Claim
  BY <1>3 DEF Claim, ConnectFailed, AnotherAttempt, LastAttempt, Fault
<1>4. CASE Identify
  BY <1>4 DEF Identify, Connected, Resume, ConnectFailed, AnotherAttempt, LastAttempt,
     Fault, Matches, Printers
<1>5. CASE Upload
  BY <1>5 DEF Upload, UploadFailed, AnotherAttempt, LastAttempt, Fault
<1>6. CASE Verify
  BY <1>6 DEF Verify, AnotherAttempt, LastAttempt, Fault, Matches, Printers
<1>7. CASE Write
  BY <1>7 DEF Write, Transfers, Transfer, Ambiguous, Accepted, CutShort,
     LostUnsent, Lost, TryAgain, GiveUp, SendLimit, OrIncomplete
<1>8. CASE Reread
  BY <1>8 DEF Reread, Fault, Disconnected, Matches, Printers
<1>9. CASE ReadStatus
  BY <1>9 DEF ReadStatus, Fault, Disconnected
<1>10. CASE Connect
  BY <1>10 DEF Connect, Begin
<1>11. ASSUME NEW withImage \in BOOLEAN,
              NEW v \in {ExpectedVersion, NoVersion},
              Bootstrap(withImage, v)
       PROVE  UNCHANGED outcome \/ Returns \/ Settles
  BY <1>11 DEF Bootstrap, Begin, Settle
<1>12. ASSUME NEW name \in {"send", "send_once"},
              Send(name)
       PROVE  UNCHANGED outcome \/ Returns \/ Settles
  BY <1>12 DEF Send, Begin, Settle
<1>13. CASE Revalidate
  BY <1>13 DEF Revalidate, Begin
<1>14. CASE GetStatus
  BY <1>14 DEF GetStatus, Begin
<1>15. ASSUME NEW name \in Ops,
              Refuse(name)
       PROVE  UNCHANGED outcome \/ Returns \/ Settles
  BY <1>15 DEF Refuse, Settle
<1>16. CASE Disconnect
  BY <1>16 DEF Disconnect, Disconnected
<1>17. CASE Environment
  BY <1>17, EnvironmentStep
<1>18. CASE UNCHANGED vars
  BY <1>18 DEF vars
<1> QED
  BY <1>1, <1>2, <1>3, <1>4, <1>5, <1>6, <1>7, <1>8, <1>9, <1>10, <1>11,
     <1>12, <1>13, <1>14, <1>15, <1>16, <1>17, <1>18
     DEF Next, Callback, Serving

LEMMA OutcomeStep == TypeOK /\ [Next]_vars => outcome' \in Outcomes
<1> SUFFICES ASSUME TypeOK, [Next]_vars PROVE outcome' \in Outcomes
  OBVIOUS
<1>1. CASE UNCHANGED outcome
  BY <1>1 DEF TypeOK
<1>2. CASE Returns
  BY <1>2, OutcomeFields DEF Returns, Return, TypeOK
<1>3. CASE Settles
  <2>1. 0 \in 0..ChunkBytes + 1 /\ 0 \in 0..MaxAttempts
    BY DeviceAssumption
  <2> QED
    BY <1>3, <2>1, OutcomeFields DEF Settles, Settle
<1> QED
  BY <1>1, <1>2, <1>3, OutcomeChange

LEMMA PrinterFields ==
  ASSUME NEW p \in Printers
  PROVE  /\ \A a \in BOOLEAN : [p EXCEPT !.attached = a] \in Printers
         /\ \A v \in Versions \union {NoVersion} :
              [p EXCEPT !.running = v] \in Printers
         /\ \A l \in BOOLEAN : [p EXCEPT !.loaded = l] \in Printers
         /\ [p EXCEPT !.uploads = 0] \in Printers
         /\ [p EXCEPT !.uploads = IF @ < 2 THEN @ + 1 ELSE 2] \in Printers
         /\ \A u \in BOOLEAN : [p EXCEPT !.unnoticed = u] \in Printers
<1>1. \A a \in BOOLEAN : [p EXCEPT !.attached = a] \in Printers
  BY DEF Printers
<1>2. \A v \in Versions \union {NoVersion} : [p EXCEPT !.running = v] \in Printers
  BY DEF Printers
<1>3. \A l \in BOOLEAN : [p EXCEPT !.loaded = l] \in Printers
  BY DEF Printers
<1>4. [p EXCEPT !.uploads = 0] \in Printers
  BY DEF Printers
<1>5. [p EXCEPT !.uploads = IF @ < 2 THEN @ + 1 ELSE 2] \in Printers
  BY DEF Printers
<1>6. \A u \in BOOLEAN : [p EXCEPT !.unnoticed = u] \in Printers
  BY DEF Printers
<1> QED
  BY <1>1, <1>2, <1>3, <1>4, <1>5, <1>6

LEMMA PrinterStep == TypeOK /\ [Next]_vars => printer' \in Printers
<1> SUFFICES ASSUME TypeOK, [Next]_vars PROVE printer' \in Printers
  OBVIOUS
<1> USE DEF TypeOK
<1>1. CASE Upload
  <2>1. printer' \in {printer, AfterUpload, CountUpload}
    BY <1>1 DEF Upload
  <2>2. AfterUpload \in Printers
    BY PrinterFields DEF AfterUpload
  <2> QED
    BY <2>1, <2>2, PrinterFields DEF CountUpload
<1>2. ASSUME NEW kind \in Kinds, Attach(kind) PROVE printer' \in Printers
  <2>1. [attached |-> TRUE, kind |-> kind, running |-> NoVersion,
         loaded |-> FALSE, uploads |-> 0, unnoticed |-> FALSE] \in Printers
    BY DEF Printers
  <2> QED
    BY <1>2, <2>1, PrinterFields DEF Attach
<1>3. CASE Detach
  BY <1>3, PrinterFields DEF Detach
<1>4. CASE PowerCycle
  BY <1>4, PrinterFields DEF PowerCycle
<1>8. CASE Identify \/ Verify \/ Reread
  BY <1>8, PrinterFields DEF Identify, Verify, Reread, Asked
<1>5. ASSUME NEW v \in Versions, Boot(v) PROVE printer' \in Printers
  BY <1>5, PrinterFields DEF Boot
<1>6. CASE UNCHANGED printer
  BY <1>6
<1>7. CASE UNCHANGED vars
  BY <1>7 DEF vars
<1> QED
  BY <1>1, <1>2, <1>3, <1>4, <1>5, <1>6, <1>7, <1>8
     DEF Next, Callback, Serving, Environment, Discover, Open, Claim,
         Write, ReadStatus, Connect, Bootstrap, Send,
         Revalidate, GetStatus, Refuse, Disconnect

LEMMA TypeStep == TypeOK /\ Control /\ [Next]_vars => TypeOK'
<1> SUFFICES ASSUME TypeOK, Control, [Next]_vars PROVE TypeOK'
  OBVIOUS
<1>1. TypeData' /\ TypeFlags' /\ outcome' \in Outcomes /\ printer' \in Printers
  BY DataStep, FlagsStep, OutcomeStep, PrinterStep
<1> QED
  BY <1>1 DEF TypeOK, TypeData, TypeFlags

-----------------------------------------------------------------------------
(* The inductive invariant *)

LEMMA ControlStep == IInv /\ [Next]_vars => Control'
<1> SUFFICES ASSUME IInv, [Next]_vars PROVE Control'
  OBVIOUS
<1> USE DeviceAssumption DEF IInv, TypeOK, Control, HandleDiscipline,
      Ops, Steps, DeviceStates, Close, Return, Continue, device, call,
      transport
<1>1. CASE Discover
  BY <1>1 DEF Discover, ConnectFailed, AnotherAttempt, LastAttempt
<1>2. CASE Open
  BY <1>2 DEF Open, ConnectFailed, AnotherAttempt, LastAttempt, Fault
<1>3. CASE Claim
  <2>1. CASE live /\ link' = "claimed" /\ Continue("identify") /\ UNCHANGED device
    BY <1>3, <2>1 DEF Claim
  <2>2. ASSUME NEW c \in Faults, ConnectFailed(c) PROVE Control'
    BY <1>3, <2>2 DEF Claim, ConnectFailed, AnotherAttempt, LastAttempt
  <2> QED
    BY <1>3, <2>1, <2>2 DEF Claim
<1>4. CASE Identify
  <2>1. CASE Connected
    BY <1>4, <2>1 DEF Identify, Connected, Resume
  <2>2. CASE \E c \in Categories : Return(c, "EXPLICIT", 0)
    BY <1>4, <2>2 DEF Identify
  <2>3. ASSUME NEW c \in Faults, ConnectFailed(c) PROVE Control'
    BY <1>4, <2>3 DEF Identify, ConnectFailed, AnotherAttempt, LastAttempt
  <2> QED
    BY <1>4, <2>1, <2>2, <2>3 DEF Identify, Categories
<1>5. CASE Upload
  BY <1>5 DEF Upload, UploadFailed, AnotherAttempt, LastAttempt, Fault
<1>6. CASE Verify
  BY <1>6 DEF Verify, AnotherAttempt, LastAttempt, Fault, Matches, Printers
<1>7. CASE Write
  BY <1>7 DEF Write, Transfers, Transfer, Ambiguous, Accepted, CutShort,
     LostUnsent, Lost, TryAgain, GiveUp, SendLimit, OrIncomplete
<1>8. CASE Reread
  BY <1>8 DEF Reread, Fault, Disconnected, Matches, Printers
<1>9. CASE ReadStatus
  BY <1>9 DEF ReadStatus, Fault, Disconnected
<1>10. CASE Connect
  BY <1>10 DEF Connect, Begin
<1>11. ASSUME NEW withImage \in BOOLEAN,
              NEW v \in {ExpectedVersion, NoVersion},
              Bootstrap(withImage, v)
       PROVE  Control'
  BY <1>11 DEF Bootstrap, Begin, Settle
<1>12. ASSUME NEW name \in {"send", "send_once"},
              Send(name)
       PROVE  Control'
  BY <1>12 DEF Send, Begin, Settle
<1>13. CASE Revalidate
  BY <1>13 DEF Revalidate, Begin
<1>14. CASE GetStatus
  BY <1>14 DEF GetStatus, Begin
<1>15. ASSUME NEW name \in Ops,
              Refuse(name)
       PROVE  Control'
  BY <1>15 DEF Refuse, Settle
<1>16. CASE Disconnect
  BY <1>16 DEF Disconnect, Disconnected
<1>17. CASE Environment
  BY <1>17, EnvironmentStep
<1>18. CASE UNCHANGED vars
  BY <1>18 DEF vars
<1> QED
  BY <1>1, <1>2, <1>3, <1>4, <1>5, <1>6, <1>7, <1>8, <1>9, <1>10, <1>11,
     <1>12, <1>13, <1>14, <1>15, <1>16, <1>17, <1>18
     DEF Next, Callback, Serving

LEMMA HistoryStep == IInv /\ [Next]_vars => HandleHistory'
<1> SUFFICES ASSUME IInv, [Next]_vars PROVE HandleHistory'
  OBVIOUS
<1> USE DeviceAssumption DEF IInv, TypeOK, Control, HandleHistory,
      HandleDiscipline, ReadyIsVouched, Ops, Steps, DeviceStates, Close,
      Return, Continue, device, call, transport
<1>1. CASE Discover
  BY <1>1 DEF Discover, ConnectFailed, AnotherAttempt, LastAttempt
<1>2. CASE Open
  BY <1>2 DEF Open, ConnectFailed, AnotherAttempt, LastAttempt, Fault
<1>3. CASE Claim
  BY <1>3 DEF Claim, ConnectFailed, AnotherAttempt, LastAttempt, Fault
<1>4. CASE Identify
  BY <1>4 DEF Identify, Connected, Resume, ConnectFailed, AnotherAttempt, LastAttempt,
     Fault, Matches, Printers
<1>5. CASE Upload
  BY <1>5 DEF Upload, UploadFailed, AnotherAttempt, LastAttempt, Fault
<1>6. CASE Verify
  BY <1>6 DEF Verify, AnotherAttempt, LastAttempt, Fault, Matches, Printers
<1>7. CASE Write
  BY <1>7 DEF Write, Transfers, Transfer, Ambiguous, Accepted, CutShort,
     LostUnsent, Lost, TryAgain, GiveUp, SendLimit, OrIncomplete
<1>8. CASE Reread
  BY <1>8 DEF Reread, Fault, Disconnected, Matches, Printers
<1>9. CASE ReadStatus
  BY <1>9 DEF ReadStatus, Fault, Disconnected
<1>10. CASE Connect
  BY <1>10 DEF Connect, Begin
<1>11. ASSUME NEW withImage \in BOOLEAN,
              NEW v \in {ExpectedVersion, NoVersion},
              Bootstrap(withImage, v)
       PROVE  HandleHistory'
  BY <1>11 DEF Bootstrap, Begin, Settle
<1>12. ASSUME NEW name \in {"send", "send_once"},
              Send(name)
       PROVE  HandleHistory'
  BY <1>12 DEF Send, Begin, Settle
<1>13. CASE Revalidate
  BY <1>13 DEF Revalidate, Begin
<1>14. CASE GetStatus
  BY <1>14 DEF GetStatus, Begin
<1>15. ASSUME NEW name \in Ops,
              Refuse(name)
       PROVE  HandleHistory'
  BY <1>15 DEF Refuse, Settle
<1>16. CASE Disconnect
  BY <1>16 DEF Disconnect, Disconnected
<1>17. CASE Environment
  BY <1>17, EnvironmentStep
<1>18. CASE UNCHANGED vars
  BY <1>18 DEF vars
<1> QED
  BY <1>1, <1>2, <1>3, <1>4, <1>5, <1>6, <1>7, <1>8, <1>9, <1>10, <1>11,
     <1>12, <1>13, <1>14, <1>15, <1>16, <1>17, <1>18
     DEF Next, Callback, Serving

LEMMA DisciplineStep == IInv /\ [Next]_vars => HandleDiscipline'
<1> SUFFICES ASSUME IInv, [Next]_vars PROVE HandleDiscipline'
  OBVIOUS
<1> USE DeviceAssumption DEF IInv, TypeOK, Control, HandleHistory,
      HandleDiscipline, ReadyIsVouched, Ops, Steps, DeviceStates, Close,
      Return, Continue, device, call, transport
<1>1. CASE Discover
  BY <1>1 DEF Discover, ConnectFailed, AnotherAttempt, LastAttempt
<1>2. CASE Open
  BY <1>2 DEF Open, ConnectFailed, AnotherAttempt, LastAttempt, Fault
<1>3. CASE Claim
  BY <1>3 DEF Claim, ConnectFailed, AnotherAttempt, LastAttempt, Fault
<1>4. CASE Identify
  BY <1>4 DEF Identify, Connected, Resume, ConnectFailed, AnotherAttempt, LastAttempt,
     Fault, Matches, Printers
<1>5. CASE Upload
  BY <1>5 DEF Upload, UploadFailed, AnotherAttempt, LastAttempt, Fault
<1>6. CASE Verify
  BY <1>6 DEF Verify, AnotherAttempt, LastAttempt, Fault, Matches, Printers
<1>7. CASE Write
  BY <1>7 DEF Write, Transfers, Transfer, Ambiguous, Accepted, CutShort,
     LostUnsent, Lost, TryAgain, GiveUp, SendLimit, OrIncomplete
<1>8. CASE Reread
  BY <1>8 DEF Reread, Fault, Disconnected, Matches, Printers
<1>9. CASE ReadStatus
  BY <1>9 DEF ReadStatus, Fault, Disconnected
<1>10. CASE Connect
  BY <1>10 DEF Connect, Begin
<1>11. ASSUME NEW withImage \in BOOLEAN,
              NEW v \in {ExpectedVersion, NoVersion},
              Bootstrap(withImage, v)
       PROVE  HandleDiscipline'
  BY <1>11 DEF Bootstrap, Begin, Settle
<1>12. ASSUME NEW name \in {"send", "send_once"},
              Send(name)
       PROVE  HandleDiscipline'
  BY <1>12 DEF Send, Begin, Settle
<1>13. CASE Revalidate
  BY <1>13 DEF Revalidate, Begin
<1>14. CASE GetStatus
  BY <1>14 DEF GetStatus, Begin
<1>15. ASSUME NEW name \in Ops,
              Refuse(name)
       PROVE  HandleDiscipline'
  BY <1>15 DEF Refuse, Settle
<1>16. CASE Disconnect
  BY <1>16 DEF Disconnect, Disconnected
<1>17. CASE Environment
  BY <1>17, EnvironmentStep
<1>18. CASE UNCHANGED vars
  BY <1>18 DEF vars
<1> QED
  BY <1>1, <1>2, <1>3, <1>4, <1>5, <1>6, <1>7, <1>8, <1>9, <1>10, <1>11,
     <1>12, <1>13, <1>14, <1>15, <1>16, <1>17, <1>18
     DEF Next, Callback, Serving

LEMMA VouchedStep == IInv /\ [Next]_vars => ReadyIsVouched'
<1> SUFFICES ASSUME IInv, [Next]_vars PROVE ReadyIsVouched'
  OBVIOUS
<1> USE DeviceAssumption DEF IInv, TypeOK, Control, HandleHistory,
      HandleDiscipline, ReadyIsVouched, Ops, Steps, DeviceStates, Close,
      Return, Continue, device, call, transport
<1>1. CASE Discover
  BY <1>1 DEF Discover, ConnectFailed, AnotherAttempt, LastAttempt
<1>2. CASE Open
  BY <1>2 DEF Open, ConnectFailed, AnotherAttempt, LastAttempt, Fault
<1>3. CASE Claim
  BY <1>3 DEF Claim, ConnectFailed, AnotherAttempt, LastAttempt, Fault
<1>4. CASE Identify
  BY <1>4 DEF Identify, Connected, Resume, ConnectFailed, AnotherAttempt, LastAttempt,
     Fault, Matches, Printers
<1>5. CASE Upload
  BY <1>5 DEF Upload, UploadFailed, AnotherAttempt, LastAttempt, Fault
<1>6. CASE Verify
  BY <1>6 DEF Verify, AnotherAttempt, LastAttempt, Fault, Matches, Printers
<1>7. CASE Write
  BY <1>7 DEF Write, Transfers, Transfer, Ambiguous, Accepted, CutShort,
     LostUnsent, Lost, TryAgain, GiveUp, SendLimit, OrIncomplete
<1>8. CASE Reread
  BY <1>8 DEF Reread, Fault, Disconnected, Matches, Printers
<1>9. CASE ReadStatus
  BY <1>9 DEF ReadStatus, Fault, Disconnected
<1>10. CASE Connect
  BY <1>10 DEF Connect, Begin
<1>11. ASSUME NEW withImage \in BOOLEAN,
              NEW v \in {ExpectedVersion, NoVersion},
              Bootstrap(withImage, v)
       PROVE  ReadyIsVouched'
  BY <1>11 DEF Bootstrap, Begin, Settle, Matches
<1>12. ASSUME NEW name \in {"send", "send_once"},
              Send(name)
       PROVE  ReadyIsVouched'
  BY <1>12 DEF Send, Begin, Settle
<1>13. CASE Revalidate
  BY <1>13 DEF Revalidate, Begin
<1>14. CASE GetStatus
  BY <1>14 DEF GetStatus, Begin
<1>15. ASSUME NEW name \in Ops,
              Refuse(name)
       PROVE  ReadyIsVouched'
  BY <1>15 DEF Refuse, Settle
<1>16. CASE Disconnect
  BY <1>16 DEF Disconnect, Disconnected
<1>17. CASE Environment
  BY <1>17, EnvironmentStep
<1>18. CASE UNCHANGED vars
  BY <1>18 DEF vars
<1> QED
  BY <1>1, <1>2, <1>3, <1>4, <1>5, <1>6, <1>7, <1>8, <1>9, <1>10, <1>11,
     <1>12, <1>13, <1>14, <1>15, <1>16, <1>17, <1>18
     DEF Next, Callback, Serving

\* Asking for the identity changes nothing about the printer itself.
LEMMA AskedFields ==
  ASSUME TypeOK
  PROVE  /\ Asked.attached = printer.attached
         /\ Asked.kind = printer.kind
         /\ Asked.running = printer.running
         /\ Asked.loaded = printer.loaded
BY DEF TypeOK, Printers, Asked

LEMMA LiveStep == IInv /\ [Next]_vars => LiveHandle'
<1> SUFFICES ASSUME IInv, [Next]_vars PROVE LiveHandle'
  OBVIOUS
<1> USE DeviceAssumption DEF IInv, TypeOK, Control, HandleDiscipline,
      HandleHistory, LiveHandle, Close, Return, Continue, device, call, transport
<1>1. CASE Discover
  BY <1>1 DEF Discover, ConnectFailed, AnotherAttempt, LastAttempt
<1>2. CASE Open
  BY <1>2 DEF Open, ConnectFailed, AnotherAttempt, LastAttempt, Fault
<1>3. CASE Claim
  BY <1>3 DEF Claim, ConnectFailed, AnotherAttempt, LastAttempt, Fault
<1>4. CASE Identify
  BY AskedFields, <1>4 DEF Identify, Connected, Resume, ConnectFailed, AnotherAttempt, LastAttempt,
     Fault, Matches
<1>5. CASE Upload
  <2>1. printer' \in {printer, AfterUpload, CountUpload}
    BY <1>5 DEF Upload
  <2>2. /\ printer'.attached = printer.attached /\ printer'.kind = printer.kind
        /\ printer'.running = printer.running
        /\ printer.loaded => printer'.loaded
    BY <2>1 DEF Printers, AfterUpload, CountUpload
  <2> QED
    BY <1>5, <2>2 DEF Upload, UploadFailed, AnotherAttempt, LastAttempt
<1>6. CASE Verify
  BY AskedFields, <1>6 DEF Verify, AnotherAttempt, LastAttempt, Fault, Matches
<1>7. CASE Write
  BY <1>7 DEF Write, Transfers, Transfer, Ambiguous, Accepted, CutShort,
     LostUnsent, Lost, TryAgain, GiveUp, SendLimit, OrIncomplete
<1>8. CASE Reread
  BY AskedFields, <1>8 DEF Reread, Fault, Disconnected, Matches
<1>9. CASE ReadStatus
  BY <1>9 DEF ReadStatus, Fault, Disconnected
<1>10. CASE Connect
  BY <1>10 DEF Connect, Begin
<1>11. ASSUME NEW withImage \in BOOLEAN,
              NEW v \in {ExpectedVersion, NoVersion},
              Bootstrap(withImage, v)
       PROVE  LiveHandle'
  BY <1>11 DEF Bootstrap, Begin, Settle
<1>12. ASSUME NEW name \in {"send", "send_once"},
              Send(name)
       PROVE  LiveHandle'
  BY <1>12 DEF Send, Begin, Settle
<1>13. CASE Revalidate
  BY <1>13 DEF Revalidate, Begin
<1>14. CASE GetStatus
  BY <1>14 DEF GetStatus, Begin
<1>15. ASSUME NEW name \in Ops,
              Refuse(name)
       PROVE  LiveHandle'
  BY <1>15 DEF Refuse, Settle
<1>16. CASE Disconnect
  BY <1>16 DEF Disconnect, Disconnected
<1>17. CASE Environment
  <2>1. UNCHANGED seen
    BY <1>17, EnvironmentStep
  <2>2. ASSUME NEW kind \in Kinds, Attach(kind) PROVE LiveHandle'
    <3>1. ~live /\ ~live'
      BY <2>2 DEF Attach
    <3> QED
      BY <3>1
  <2>3. CASE Detach
    BY <2>3 DEF Detach
  <2>4. CASE PowerCycle
    <3>1. /\ printer'.attached = printer.attached
          /\ printer'.kind = printer.kind /\ printer'.running = NoVersion
      BY <2>4 DEF PowerCycle, Printers
    <3>2. live' => printer'.unnoticed
      BY <2>4 DEF PowerCycle, Printers
    <3>3. live' => live
      BY <2>4 DEF PowerCycle
    <3> QED
      BY <2>1, <3>1, <3>2, <3>3
  <2>5. ASSUME NEW v \in Versions, Boot(v) PROVE LiveHandle'
    <3>1. /\ printer'.attached = printer.attached /\ printer'.kind = printer.kind
          /\ printer'.unnoticed = printer.unnoticed
          /\ printer'.loaded = printer.loaded
      BY <2>5 DEF Boot, Printers
    <3>2. printer.loaded /\ printer.running = NoVersion
      BY <2>5 DEF Boot
    <3>3. seen \notin Versions \/ ~live \/ printer.unnoticed
      BY <3>2
    <3> QED
      BY <2>5, <3>1, <3>2, <3>3 DEF Boot
  <2> QED
    BY <1>17, <2>2, <2>3, <2>4, <2>5 DEF Environment
<1>18. CASE UNCHANGED vars
  BY <1>18 DEF vars
<1> QED
  BY <1>1, <1>2, <1>3, <1>4, <1>5, <1>6, <1>7, <1>8, <1>9, <1>10, <1>11,
     <1>12, <1>13, <1>14, <1>15, <1>16, <1>17, <1>18
     DEF Next, Callback, Serving

LEMMA HonestStep == IInv /\ [Next]_vars => TransferResultIsHonest'
<1> SUFFICES ASSUME IInv, [Next]_vars PROVE TransferResultIsHonest'
  OBVIOUS
<1> USE DeviceAssumption DEF IInv, TypeOK, Control, TransferResultIsHonest, Ops,
      Return, Continue, device, call, transport
<1>1. CASE Discover
  BY <1>1 DEF Discover, ConnectFailed, AnotherAttempt, LastAttempt
<1>2. CASE Open
  BY <1>2 DEF Open, ConnectFailed, AnotherAttempt, LastAttempt, Fault
<1>3. CASE Claim
  BY <1>3 DEF Claim, ConnectFailed, AnotherAttempt, LastAttempt, Fault
<1>4. CASE Identify
  BY <1>4 DEF Identify, Connected, Resume, ConnectFailed, AnotherAttempt, LastAttempt,
     Fault, Matches, Printers
<1>5. CASE Upload
  BY <1>5 DEF Upload, UploadFailed, AnotherAttempt, LastAttempt, Fault
<1>6. CASE Verify
  BY <1>6 DEF Verify, AnotherAttempt, LastAttempt, Fault, Matches, Printers
<1>7. CASE Write
  BY <1>7 DEF Write, Transfers, Transfer, Ambiguous, Accepted, CutShort,
     LostUnsent, Lost, TryAgain, GiveUp, SendLimit, OrIncomplete
<1>8. CASE Reread
  BY <1>8 DEF Reread, Fault, Disconnected, Matches, Printers
<1>9. CASE ReadStatus
  BY <1>9 DEF ReadStatus, Fault, Disconnected
<1>10. CASE Connect
  BY <1>10 DEF Connect, Begin
<1>11. ASSUME NEW withImage \in BOOLEAN,
              NEW v \in {ExpectedVersion, NoVersion},
              Bootstrap(withImage, v)
       PROVE  TransferResultIsHonest'
  BY <1>11 DEF Bootstrap, Begin, Settle
<1>12. ASSUME NEW name \in {"send", "send_once"},
              Send(name)
       PROVE  TransferResultIsHonest'
  BY <1>12 DEF Send, Begin, Settle
<1>13. CASE Revalidate
  BY <1>13 DEF Revalidate, Begin
<1>14. CASE GetStatus
  BY <1>14 DEF GetStatus, Begin
<1>15. ASSUME NEW name \in Ops,
              Refuse(name)
       PROVE  TransferResultIsHonest'
  BY <1>15 DEF Refuse, Settle
<1>16. CASE Disconnect
  BY <1>16 DEF Disconnect, Disconnected
<1>17. CASE Environment
  BY <1>17, EnvironmentStep
<1>18. CASE UNCHANGED vars
  BY <1>18 DEF vars
<1> QED
  BY <1>1, <1>2, <1>3, <1>4, <1>5, <1>6, <1>7, <1>8, <1>9, <1>10, <1>11,
     <1>12, <1>13, <1>14, <1>15, <1>16, <1>17, <1>18
     DEF Next, Callback, Serving

LEMMA InvInit == Init => IInv
<1> SUFFICES ASSUME Init PROVE IInv
  OBVIOUS
<1>1. Control /\ HandleHistory /\ LiveHandle
  BY DEF Init, Control, HandleHistory, LiveHandle
<1>2. HandleDiscipline /\ ReadyIsVouched /\ TransferResultIsHonest
  BY DEF Init, HandleDiscipline, ReadyIsVouched, TransferResultIsHonest
<1> QED
  BY <1>1, <1>2, TypeInit DEF IInv

LEMMA InvStep == IInv /\ [Next]_vars => IInv'
<1> SUFFICES ASSUME IInv, [Next]_vars PROVE IInv'
  OBVIOUS
<1>1. TypeOK'
  BY TypeStep DEF IInv
<1>2. Control' /\ HandleHistory' /\ LiveHandle'
  BY ControlStep, HistoryStep, LiveStep
<1>3. HandleDiscipline' /\ ReadyIsVouched' /\ TransferResultIsHonest'
  BY DisciplineStep, VouchedStep, HonestStep
<1> QED
  BY <1>1, <1>2, <1>3 DEF IInv

LEMMA Invariance == Spec => []IInv
BY InvInit, InvStep, PTL DEF Spec

\* Every variable keeps its type: in particular no loop of src/device.c counts
\* past HPLJ_MAX_AUTOMATIC_ATTEMPTS and the result never reports more than one
\* byte beyond the buffer.
THEOREM TypeCorrect == Spec => []TypeOK
<1>1. IInv => TypeOK
  BY DEF IInv
<1> QED
  BY <1>1, Invariance, PTL

-----------------------------------------------------------------------------
(* The safety properties *)

\* The device never loses track of its handle (hplj_release, connect_once).
THEOREM HandleDisciplined == Spec => []HandleDiscipline
<1>1. IInv => HandleDiscipline
  BY DEF IInv
<1> QED
  BY <1>1, Invariance, PTL

\* READY always rests on an identity read over the handle that is held
\* (bootstrap_firmware, verify_post_upload, revalidate).
THEOREM ReadyVouched == Spec => []ReadyIsVouched
<1>1. IInv => ReadyIsVouched
  BY DEF IInv
<1> QED
  BY <1>1, Invariance, PTL

\* FW-002 at the printer: an image goes to a reference printer that has shown no
\* version on this handle since the last image, and to none that came with
\* firmware (bootstrap_firmware, verify_post_upload, connect_once).
THEOREM UploadsReachBlank == Spec => []UploadReachesBlankPrinter
<1>1. IInv => UploadOnlyWhenAbsent
  BY DEF IInv, Control, HandleHistory, UploadOnlyWhenAbsent
<1>2. IInv => UploadReachesBlankPrinter
  BY <1>1, DeviceAssumption
     DEF IInv, LiveHandle, UploadOnlyWhenAbsent, UploadReachesBlankPrinter
<1> QED
  BY <1>2, Invariance, PTL

\* FW-003: hplj_device_send_attempts writes only on a READY, open device.
THEOREM PrintsWhenReady == Spec => []PrintOnlyWhenReady
<1>1. IInv => PrintOnlyWhenReady
  BY DEF IInv, Control, HandleDiscipline, ReadyIsVouched, PrintOnlyWhenReady
<1> QED
  BY <1>1, Invariance, PTL

\* FW-003 at the printer: print bytes only reach a reference printer that runs
\* the expected firmware, unless it has lost power behind the open handle.
THEOREM PrintsReachVerified == Spec => []PrintReachesVerifiedPrinter
<1>1. IInv => PrintReachesVerifiedPrinter
  BY DeviceAssumption
     DEF IInv, Control, LiveHandle, ReadyIsVouched, PrintReachesVerifiedPrinter
<1> QED
  BY <1>1, Invariance, PTL

\* FW-008: the result of a transfer accounts for all bytes of all attempts of
\* hplj_device_send_attempts, and never calls a partial transfer a success or
\* safe to retry.
THEOREM TransfersHonest == Spec => []TransferResultIsHonest
<1>1. IInv => TransferResultIsHonest
  BY DEF IInv
<1> QED
  BY <1>1, Invariance, PTL

\* A transfer that fails after its first byte leaves a disconnected device.
THEOREM PartialTransfersDisconnect == Spec => PartialTransferDisconnects
<1> DEFINE Failed == /\ op \in {"send", "send_once"} /\ op' = "none"
                     /\ outcome'.category # "NONE" /\ outcome'.bytes > 0
<1>1. IInv /\ [Next]_vars => [Failed => state' = "DISCONNECTED" /\ ~opened']_vars
  <2> SUFFICES ASSUME IInv, Next, Failed
               PROVE  state' = "DISCONNECTED" /\ ~opened'
    BY DEF vars
  <2>1. Write
    BY DEF IInv, Control, TypeOK, Ops, Steps, Next, Callback, Serving,
       Environment, Discover, Open, Claim, Identify, Upload, Verify, Reread,
       ReadStatus, Connect, Bootstrap, Send, Revalidate, GetStatus, Refuse,
       Settle, Disconnect, Attach, Detach, PowerCycle, Boot, call
  <2> QED
    BY <2>1, DeviceAssumption
       DEF IInv, TypeOK, Write, Transfers, Transfer, Ambiguous, Accepted,
           CutShort, LostUnsent, TryAgain, GiveUp, Return, Close, transport
<1> QED
  BY <1>1, Invariance, PTL DEF Spec, PartialTransferDisconnects

-----------------------------------------------------------------------------
(* HpljDevice implements DeviceContract: a callback either leaves its call  *)
(* running, which the contract does not see, or returns with one of the     *)
(* contract's endings.                                                      *)

\* The call in progress may end this way.
CanEnd(s, h, c, r, b) ==
  Contract!Ending(s, h, c, r, b) \in Contract!Endings[op]

\* The contract sees nothing of a step inside a call.
Hidden == op # "none" /\ UNCHANGED <<op, outcome>>

-----------------------------------------------------------------------------
(* The endings of each kind of call *)

LEMMA ConnectingEnds ==
  ASSUME op \in {"connect", "bootstrap"}
  PROVE  /\ CanEnd("DISCONNECTED", FALSE, "DEVICE_PROTOCOL", "SAFE_AUTOMATIC", 0)
         /\ CanEnd("DISCONNECTED", FALSE, "DEVICE_PROTOCOL", "EXPLICIT", 0)
         /\ CanEnd("UNSUPPORTED", FALSE, "UNSUPPORTED_DEVICE", "EXPLICIT", 0)
<1>1. CASE op = "connect"
  BY <1>1 DEF CanEnd, Contract!Endings, Contract!ConnectEndings, Contract!Faults
<1>2. CASE op = "bootstrap"
  BY <1>2 DEF CanEnd, Contract!Endings, Contract!UploadEndings
<1> QED
  BY <1>1, <1>2

LEMMA ConnectEnds ==
  ASSUME op = "connect"
  PROVE  /\ \A s \in {"PRE_FIRMWARE", "FIRMWARE_PRESENT"} :
              CanEnd(s, TRUE, "NONE", "SAFE_AUTOMATIC", 0)
         /\ \A c \in Faults : CanEnd("DISCONNECTED", FALSE, c, "EXPLICIT", 0)
BY DEF CanEnd, Contract!Endings, Contract!ConnectEndings, Contract!Faults, Faults

LEMMA BootstrapEnds ==
  ASSUME op = "bootstrap"
  PROVE  /\ CanEnd("READY", TRUE, "NONE", "SAFE_AUTOMATIC", 0)
         /\ CanEnd("FIRMWARE_UNVERIFIED", FALSE, "DEVICE_PROTOCOL", "EXPLICIT", 0)
         /\ CanEnd("FIRMWARE_TRANSFER_FAILED", FALSE,
                   "FIRMWARE_TRANSFER_FAILED", "EXPLICIT", 0)
         /\ \A h \in BOOLEAN : CanEnd("FIRMWARE_UNVERIFIED", h,
                                      "FIRMWARE_UNVERIFIED", "EXPLICIT", 0)
BY DEF CanEnd, Contract!Endings, Contract!UploadEndings

LEMMA TransferEnds ==
  ASSUME op \in {"send", "send_once"}
  PROVE  /\ CanEnd("READY", TRUE, "NONE", "SAFE_AUTOMATIC", ChunkBytes)
         /\ CanEnd("DISCONNECTED", FALSE, "DEVICE_PROTOCOL", "EXPLICIT",
                   ChunkBytes + 1)
         /\ \A c \in Faults \union {"TRANSFER_INCOMPLETE"}, b \in 1..ChunkBytes :
              CanEnd("DISCONNECTED", FALSE, c, "EXPLICIT", b)
         /\ \A c \in Lost : CanEnd("DISCONNECTED", FALSE, c, "SAFE_AUTOMATIC", 0)
         /\ \A c \in {"DEVICE_TIMEOUT", "TRANSFER_INCOMPLETE"} :
              CanEnd("READY", TRUE, c, "EXPLICIT", 0)
<1>1. Contract!Endings[op] = Contract!SendEndings
  BY DEF Contract!Endings
<1>2. /\ CanEnd("READY", TRUE, "NONE", "SAFE_AUTOMATIC", ChunkBytes)
      /\ CanEnd("DISCONNECTED", FALSE, "DEVICE_PROTOCOL", "EXPLICIT",
                ChunkBytes + 1)
  BY <1>1 DEF CanEnd, Contract!SendEndings
<1>3. \A c \in Faults \union {"TRANSFER_INCOMPLETE"}, b \in 1..ChunkBytes :
        CanEnd("DISCONNECTED", FALSE, c, "EXPLICIT", b)
  <2> SUFFICES ASSUME NEW c \in Faults \union {"TRANSFER_INCOMPLETE"},
                      NEW b \in 1..ChunkBytes
               PROVE  CanEnd("DISCONNECTED", FALSE, c, "EXPLICIT", b)
    OBVIOUS
  <2>1. Contract!Ending("DISCONNECTED", FALSE, c, "EXPLICIT", b)
          \in Contract!CutShortEndings(b)
    BY DEF Contract!CutShortEndings, Contract!Faults, Faults
  <2> QED
    BY <1>1, <2>1 DEF CanEnd, Contract!SendEndings
<1>4. \A c \in Lost : CanEnd("DISCONNECTED", FALSE, c, "SAFE_AUTOMATIC", 0)
  BY <1>1 DEF CanEnd, Contract!SendEndings, Lost
<1>5. \A c \in {"DEVICE_TIMEOUT", "TRANSFER_INCOMPLETE"} :
        CanEnd("READY", TRUE, c, "EXPLICIT", 0)
  BY <1>1 DEF CanEnd, Contract!SendEndings
<1> QED
  BY <1>2, <1>3, <1>4, <1>5

LEMMA RevalidateEnds ==
  ASSUME op = "revalidate"
  PROVE  /\ CanEnd("READY", TRUE, "NONE", "SAFE_AUTOMATIC", 0)
         /\ CanEnd("UNSUPPORTED", FALSE, "UNSUPPORTED_DEVICE", "EXPLICIT", 0)
         /\ CanEnd("PRE_FIRMWARE", TRUE, "FIRMWARE_MISSING", "SAFE_AUTOMATIC", 0)
         /\ CanEnd("FIRMWARE_UNVERIFIED", FALSE, "FIRMWARE_UNVERIFIED",
                   "EXPLICIT", 0)
         /\ \A c \in Faults :
              CanEnd("DISCONNECTED", FALSE, c, "SAFE_AUTOMATIC", 0)
BY DEF CanEnd, Contract!Endings, Contract!RevalidateEndings, Contract!Faults,
   Faults

LEMMA StatusEnds ==
  ASSUME op = "get_status"
  PROVE  /\ CanEnd("READY", TRUE, "NONE", "SAFE_AUTOMATIC", 0)
         /\ \A c \in Faults :
              CanEnd("DISCONNECTED", FALSE, c, "SAFE_AUTOMATIC", 0)
BY DEF CanEnd, Contract!Endings, Contract!StatusEndings, Contract!Faults, Faults

-----------------------------------------------------------------------------
(* A returning call finishes *)

LEMMA FinishStep ==
  ASSUME IInv, op # "none", NEW s, NEW h \in BOOLEAN, NEW c, NEW r, NEW b,
         CanEnd(s, h, c, r, b), Return(c, r, b), state' = s, opened' = h
  PROVE  Contract!Next
<1>1. op \in Contract!Ops
  BY DEF Contract!Ops, Contract!Endings, IInv, TypeOK, Ops
<1>2. Contract!Finish(op)
  <2> DEFINE e == Contract!Ending(s, h, c, r, b)
  <2>1. /\ e.status = s /\ e.held = h /\ e.category = c /\ e.retry = r
        /\ e.bytes = b
    BY DEF Contract!Ending
  <2>2. [op |-> outcome'.op, category |-> outcome'.category,
         retry |-> outcome'.retry, bytes |-> outcome'.bytes]
          = Contract!ResultOf(op, e)
    BY <2>1 DEF Contract!ResultOf, Return
  <2>3. op' = "none"
    BY DEF Return
  <2>4. (op' = "none" /\ opened') = e.held
    BY <2>1, <2>3
  <2> QED
    BY <2>1, <2>2, <2>3, <2>4 DEF Contract!Finish, CanEnd
<1> QED
  BY <1>1, <1>2 DEF Contract!Next

LEMMA ClosingStep ==
  ASSUME IInv, op # "none", NEW s, NEW c, NEW r, NEW b,
         CanEnd(s, FALSE, c, r, b), Return(c, r, b), Close(s)
  PROVE  Contract!Next
BY FinishStep DEF Close

LEMMA RetryRefines ==
  ASSUME IInv, op \in {"connect", "bootstrap"}, NEW c,
         op = "connect" => c \in Faults, AnotherAttempt \/ LastAttempt(c)
  PROVE  Hidden \/ Contract!Next
<1>1. CASE AnotherAttempt
  BY <1>1 DEF AnotherAttempt, Hidden
<1>2. CASE op = "connect" /\ LastAttempt(c)
  BY <1>2, ConnectEnds, ClosingStep DEF LastAttempt
<1>3. CASE op = "bootstrap" /\ LastAttempt(c)
  BY <1>3, BootstrapEnds, ClosingStep DEF LastAttempt
<1> QED
  BY <1>1, <1>2, <1>3

LEMMA ConnectFailedRefines ==
  ASSUME IInv, op \in {"connect", "bootstrap"}, NEW c \in Faults, ConnectFailed(c)
  PROVE  Hidden \/ Contract!Next
<1>1. CASE c = "DEVICE_PROTOCOL"
  <2>1. Return("DEVICE_PROTOCOL", "SAFE_AUTOMATIC", 0) /\ Close("DISCONNECTED")
    BY <1>1 DEF ConnectFailed
  <2> QED
    BY <2>1, ConnectingEnds, ClosingStep
<1>2. CASE c # "DEVICE_PROTOCOL"
  BY <1>2, RetryRefines DEF ConnectFailed
<1> QED
  BY <1>1, <1>2

-----------------------------------------------------------------------------
(* The callbacks *)

LEMMA ConnectingRefines ==
  IInv /\ (Discover \/ Open \/ Claim \/ Identify) => Hidden \/ Contract!Next
<1> SUFFICES ASSUME IInv, Discover \/ Open \/ Claim \/ Identify
             PROVE  Hidden \/ Contract!Next
  OBVIOUS
<1>1. op \in {"connect", "bootstrap"} /\ op # "none"
  BY DEF IInv, Control, Discover, Open, Claim, Identify
<1>2. ASSUME NEW step, Continue(step) PROVE Hidden
  BY <1>1, <1>2 DEF Continue, Hidden
<1>3. CASE Discover
  <2>1. CASE Return("UNSUPPORTED_DEVICE", "EXPLICIT", 0)
             /\ state' = "UNSUPPORTED" /\ UNCHANGED opened
    <3>1. opened' = FALSE
      BY <1>3, <2>1 DEF Discover, IInv, HandleDiscipline, TypeOK
    <3> QED
      BY <1>1, <2>1, <3>1, ConnectingEnds, FinishStep
  <2> QED
    BY <1>1, <1>2, <1>3, <2>1, ConnectFailedRefines DEF Discover, Faults
<1>4. CASE Open
  BY <1>1, <1>2, <1>4, ConnectFailedRefines DEF Open
<1>5. CASE Claim
  BY <1>1, <1>2, <1>5, ConnectFailedRefines DEF Claim
<1>6. CASE Identify
  <2>1. CASE Connected /\ UNCHANGED opened
    <3>1. opened' = TRUE
      BY <1>6, <2>1 DEF Identify, IInv, Control, HandleDiscipline, TypeOK
    <3>2. CASE op = "connect"
      BY <2>1, <3>1, <3>2, ConnectEnds, FinishStep DEF Connected
    <3>3. CASE op = "bootstrap"
      BY <1>2, <2>1, <3>1, <3>3, BootstrapEnds, FinishStep DEF Connected
    <3> QED
      BY <1>1, <3>2, <3>3
  <2>2. CASE Close("UNSUPPORTED") /\ Return("UNSUPPORTED_DEVICE", "EXPLICIT", 0)
    BY <1>1, <2>2, ConnectingEnds, ClosingStep
  <2>3. CASE Close("DISCONNECTED") /\ Return("DEVICE_PROTOCOL", "EXPLICIT", 0)
    BY <1>1, <2>3, ConnectingEnds, ClosingStep
  <2> QED
    BY <1>1, <1>6, <2>1, <2>2, <2>3, ConnectFailedRefines DEF Identify
<1> QED
  BY <1>3, <1>4, <1>5, <1>6

LEMMA UploadingRefines == IInv /\ (Upload \/ Verify) => Hidden \/ Contract!Next
<1> SUFFICES ASSUME IInv, Upload \/ Verify PROVE Hidden \/ Contract!Next
  OBVIOUS
<1>1. op = "bootstrap"
  BY DEF IInv, Control, Upload, Verify
<1>2. CASE UNCHANGED <<op, outcome>>
  BY <1>1, <1>2 DEF Hidden
<1>3. ASSUME NEW c, AnotherAttempt \/ LastAttempt(c) PROVE Hidden \/ Contract!Next
  BY <1>1, <1>3, RetryRefines
<1>4. CASE Upload
  BY <1>2, <1>3, <1>4 DEF Upload, UploadFailed
<1>5. CASE Verify
  <2>1. CASE Close("FIRMWARE_UNVERIFIED")
             /\ Return("DEVICE_PROTOCOL", "EXPLICIT", 0)
    BY <1>1, <2>1, BootstrapEnds, ClosingStep
  <2>2. CASE Close("UNSUPPORTED") /\ Return("UNSUPPORTED_DEVICE", "EXPLICIT", 0)
    BY <1>1, <2>2, ConnectingEnds, ClosingStep
  <2>3. CASE Close("FIRMWARE_UNVERIFIED")
             /\ Return("FIRMWARE_UNVERIFIED", "EXPLICIT", 0)
    BY <1>1, <2>3, BootstrapEnds, ClosingStep
  <2>4. CASE state' = "READY" /\ Return("NONE", "SAFE_AUTOMATIC", 0)
             /\ UNCHANGED opened
    <3>1. opened' = TRUE
      BY <1>5, <2>4
         DEF Verify, IInv, Control, HandleHistory, HandleDiscipline, TypeOK
    <3> QED
      BY <1>1, <2>4, <3>1, BootstrapEnds, FinishStep
  <2> QED
    BY <1>2, <1>3, <1>5, <2>1, <2>2, <2>3, <2>4 DEF Verify
<1> QED
  BY <1>4, <1>5

LEMMA WriteRefines == IInv /\ Write => Hidden \/ Contract!Next
<1> SUFFICES ASSUME IInv, NEW t \in Transfers, at = "write", Transfer(t)
             PROVE  Hidden \/ Contract!Next
  BY DEF Write
<1>1. op \in {"send", "send_once"} /\ op # "none"
  BY DEF IInv, Control
<1>2. state = "READY" /\ opened = TRUE
  BY DEF IInv, Control, TypeOK, ReadyIsVouched, HandleDiscipline
<1>3. /\ t.category \in Faults \union {"NONE", "TRANSFER_INCOMPLETE"}
      /\ t.bytes \in 0..ChunkBytes + 1
  BY DeviceAssumption DEF Transfers, Faults
<1>4. CASE Ambiguous(t)
  <2>1. t.bytes = ChunkBytes + 1
    BY <1>3, <1>4, DeviceAssumption DEF Ambiguous
  <2> QED
    BY <1>1, <1>4, <2>1, TransferEnds, ClosingStep DEF Ambiguous
<1>5. CASE Accepted(t)
  BY <1>1, <1>2, <1>5, TransferEnds, FinishStep DEF Accepted
<1>6. CASE CutShort(t)
  <2>1. OrIncomplete(t.category) \in Faults \union {"TRANSFER_INCOMPLETE"}
    BY <1>3 DEF OrIncomplete
  <2> QED
    BY <1>1, <1>6, <2>1, TransferEnds, ClosingStep DEF CutShort
<1>7. CASE LostUnsent(t)
  BY <1>1, <1>7, TransferEnds, ClosingStep DEF LostUnsent
<1>8. CASE TryAgain(t)
  BY <1>1, <1>8 DEF TryAgain, Hidden
<1>9. CASE GiveUp(t)
  <2>1. OrIncomplete(t.category) \in {"DEVICE_TIMEOUT", "TRANSFER_INCOMPLETE"}
    BY <1>3, <1>9 DEF GiveUp, OrIncomplete, Lost, Faults
  <2> QED
    BY <1>1, <1>2, <1>9, <2>1, TransferEnds, FinishStep DEF GiveUp
<1> QED
  BY <1>4, <1>5, <1>6, <1>7, <1>8, <1>9 DEF Transfer

LEMMA ReadingRefines == IInv /\ (Reread \/ ReadStatus) => Contract!Next
<1> SUFFICES ASSUME IInv, Reread \/ ReadStatus PROVE Contract!Next
  OBVIOUS
<1>1. state = "READY" /\ opened = TRUE
  BY DEF IInv, Control, TypeOK, ReadyIsVouched, HandleDiscipline, Reread,
     ReadStatus
<1>2. CASE Reread
  <2>1. op = "revalidate"
    BY <1>2 DEF Reread, IInv, Control
  <2>2. CASE Close("DISCONNECTED")
             /\ \E c \in Faults : Return(c, "SAFE_AUTOMATIC", 0)
    BY <2>1, <2>2, RevalidateEnds, ClosingStep
  <2>3. CASE Close("UNSUPPORTED") /\ Return("UNSUPPORTED_DEVICE", "EXPLICIT", 0)
    BY <2>1, <2>3, RevalidateEnds, ClosingStep
  <2>4. CASE state' = "PRE_FIRMWARE" /\ UNCHANGED opened
             /\ Return("FIRMWARE_MISSING", "SAFE_AUTOMATIC", 0)
    BY <1>1, <2>1, <2>4, RevalidateEnds, FinishStep
  <2>5. CASE Close("FIRMWARE_UNVERIFIED")
             /\ Return("FIRMWARE_UNVERIFIED", "EXPLICIT", 0)
    BY <2>1, <2>5, RevalidateEnds, ClosingStep
  <2>6. CASE UNCHANGED <<state, opened>> /\ Return("NONE", "SAFE_AUTOMATIC", 0)
    BY <1>1, <2>1, <2>6, RevalidateEnds, FinishStep
  <2> QED
    BY <1>2, <2>2, <2>3, <2>4, <2>5, <2>6 DEF Reread, Disconnected, Faults
<1>3. CASE ReadStatus
  <2>1. op = "get_status"
    BY <1>3 DEF ReadStatus, IInv, Control
  <2>2. CASE Close("DISCONNECTED")
             /\ \E c \in Faults : Return(c, "SAFE_AUTOMATIC", 0)
    BY <2>1, <2>2, StatusEnds, ClosingStep
  <2>3. CASE UNCHANGED device /\ Return("NONE", "SAFE_AUTOMATIC", 0)
    BY <1>1, <2>1, <2>3, StatusEnds, FinishStep DEF device
  <2> QED
    BY <1>3, <2>2, <2>3 DEF ReadStatus, Disconnected
<1> QED
  BY <1>2, <1>3

-----------------------------------------------------------------------------
(* What starts a call, settles it at once, or happens to the printer *)

LEMMA StartRefines ==
  ASSUME NEW name \in Ops, NEW step, op = "none", Begin(name, step),
         state \in Contract!StartsIn[name]
  PROVE  Contract!Next
<1>1. name \in Contract!Ops
  BY DEF Contract!Ops, Contract!Endings, Ops
<1>2. name # "none"
  BY DEF Ops
<1>3. Contract!Start(name)
  BY <1>2 DEF Contract!Start, Begin
<1> QED
  BY <1>1, <1>3 DEF Contract!Next

LEMMA AtOnceRefines ==
  ASSUME NEW name, NEW category, NEW retry, op = "none", UNCHANGED opened,
         Settle(name, category, retry)
  PROVE  Contract!AtOnce(name, category, retry, state')
<1>1. op' = "none"
  BY DEF Settle, call
<1> QED
  BY <1>1 DEF Settle, Contract!AtOnce

LEMMA ServingRefines == IInv /\ (Serving \/ Disconnect) => Contract!Next
<1> SUFFICES ASSUME IInv, Serving \/ Disconnect PROVE Contract!Next
  OBVIOUS
<1>1. CASE Connect
  BY <1>1, StartRefines DEF Connect, Ops, Contract!StartsIn
<1>2. ASSUME NEW withImage \in BOOLEAN, NEW v \in {ExpectedVersion, NoVersion},
             Bootstrap(withImage, v)
      PROVE  Contract!Next
  <2>1. op = "none" /\ UNCHANGED opened
    BY <1>2 DEF Bootstrap
  <2>2. CASE Begin("bootstrap", "upload")
             /\ state \in {"PRE_FIRMWARE", "AWAITING_FIRMWARE"}
    BY <2>1, <2>2, StartRefines DEF Ops, Contract!StartsIn
  <2>3. CASE state \in {"READY", "FIRMWARE_PRESENT"}
    BY <1>2, <2>1, <2>3, AtOnceRefines
       DEF Bootstrap, Contract!FirmwareKnown, Contract!Next
  <2>4. CASE state \in {"PRE_FIRMWARE", "AWAITING_FIRMWARE"}
             /\ ~Begin("bootstrap", "upload")
    BY <1>2, <2>1, <2>4, AtOnceRefines
       DEF Bootstrap, Contract!FirmwareAbsent, Contract!Next
  <2> QED
    BY <1>2, <2>2, <2>3, <2>4 DEF Bootstrap
<1>3. ASSUME NEW name \in {"send", "send_once"}, Send(name)
      PROVE  Contract!Next
  <2>1. op = "none" /\ state = "READY" /\ UNCHANGED <<state, opened>>
    BY <1>3 DEF Send, device
  <2>2. CASE Begin(name, "write")
    BY <2>1, <2>2, StartRefines DEF Ops, Contract!StartsIn
  <2>3. CASE Settle(name, "CANCELLED", "NEVER")
    BY <2>1, <2>3, AtOnceRefines DEF Contract!Cancelled, Contract!Next
  <2> QED
    BY <1>3, <2>2, <2>3 DEF Send
<1>4. CASE Revalidate
  BY <1>4, StartRefines DEF Revalidate, Ops, Contract!StartsIn
<1>5. CASE GetStatus
  BY <1>5, StartRefines DEF GetStatus, Ops, Contract!StartsIn
<1>6. ASSUME NEW name \in Ops, Refuse(name) PROVE Contract!Next
  <2>1. name \in Contract!Ops
    BY DEF Contract!Ops, Contract!Endings, Ops
  <2>2. op = "none" /\ UNCHANGED <<state, opened>>
    BY <1>6 DEF Refuse, device
  <2>3. state \notin Contract!StartsIn[name]
    <3>1. state = "READY" => opened
      BY DEF IInv, HandleDiscipline, ReadyIsVouched
    <3>2. Refused(name)
      BY <1>6 DEF Refuse
    <3>3. CASE name \in {"connect", "bootstrap"}
      BY <3>2, <3>3 DEF Refused, Contract!StartsIn
    <3>4. CASE name \in {"send", "send_once"}
      BY <3>2, <3>4 DEF Refused, Contract!StartsIn
    <3>5. CASE name \in {"revalidate", "get_status"}
      BY <3>1, <3>2, <3>5 DEF Refused, Contract!StartsIn
    <3> QED
      BY <3>3, <3>4, <3>5 DEF Ops
  <2>4. Contract!AtOnce(name, "INVALID_STATE", "NEVER", state)
    BY <1>6, <2>2, AtOnceRefines DEF Refuse
  <2> QED
    BY <2>1, <2>2, <2>3, <2>4 DEF Contract!Refused, Contract!Next
<1>7. CASE Disconnect
  <2>1. op = "none" /\ op' = "none" /\ UNCHANGED outcome
        /\ state' = "DISCONNECTED" /\ opened' = FALSE
    BY <1>7 DEF Disconnect, Disconnected, Close, call
  <2> QED
    BY <2>1 DEF Contract!Disconnect, Contract!Next
<1> QED
  BY <1>1, <1>2, <1>3, <1>4, <1>5, <1>6, <1>7 DEF Serving

LEMMA RefinesInit == Init => Contract!Init
BY DEF Init, Contract!Init

LEMMA RefinesStep == IInv /\ [Next]_vars => [Contract!Next]_(Contract!vars)
<1> SUFFICES ASSUME IInv, [Next]_vars
             PROVE  Contract!Next \/ UNCHANGED Contract!vars
  OBVIOUS
<1>1. CASE Hidden
  BY <1>1 DEF Hidden, Contract!vars
<1>2. CASE Callback
  BY <1>1, <1>2, ConnectingRefines, UploadingRefines, WriteRefines,
     ReadingRefines DEF Callback
<1>3. CASE Serving \/ Disconnect
  BY <1>3, ServingRefines
<1>4. CASE UNCHANGED <<op, outcome, state, opened>>
  BY <1>4 DEF Contract!vars
<1>5. CASE Environment
  BY <1>4, <1>5, EnvironmentStep
<1> QED
  BY <1>2, <1>3, <1>4, <1>5 DEF Next, vars, device, call

\* src/device.c implements the contract of its API: whatever the printer and
\* the transport do during a call, it ends in one of the listed combinations
\* of device state, held handle and result.
THEOREM Implementation == Spec => ImplementsContract
BY RefinesInit, RefinesStep, Invariance, PTL
   DEF Spec, ImplementsContract, Contract!Spec

=============================================================================
