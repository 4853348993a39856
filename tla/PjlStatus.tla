------------------------------ MODULE PjlStatus ------------------------------
(***************************************************************************)
(* What the service hears from the printer: the parser of PJL status       *)
(* frames (src/pjl_status.c), the status poll, the release and the output  *)
(* status of the transport (src/usb_libusb.c), and a job that waits for    *)
(* the end of its page (hplj_wait_for_output of src/pappl_runtime.c).      *)
(*                                                                         *)
(* Abstraction: the unit of the stream is a line with its newline, a form  *)
(* feed or a NUL, where the code has bytes: inside a line both the parser  *)
(* and a transfer only go on. A frame's buffer holds Capacity - 1 units.   *)
(* The three headers of a device report are one kind of line; "broken" is  *)
(* a CODE or ONLINE line the parser refuses, or one without its newline;   *)
(* "text" is any line without a meaning.                                   *)
(*                                                                         *)
(* The printer (outside the repository) says frames of a given set at any  *)
(* time; what it says while a transfer is parsed comes after that. A       *)
(* transfer takes any part of what is there, so frames are cut anywhere;   *)
(* it times out only if nothing is left.                                   *)
(***************************************************************************)
EXTENDS Naturals, Sequences, FiniteSetsExt

CONSTANTS
  Frames,        \* the frames a printer may say, each with its form feed
  PortStatus,    \* sets of conditions the port status byte may show
  Capacity,      \* the frame buffer, in units, with its terminating NUL
  MaxPackets,    \* transfers of a poll (256 in the code)
  PacketSize,    \* units of a transfer
  FrameLimit,    \* bound: frames said
  ReleaseLimit   \* bound: connections given up

Kinds      == {"FF", "NUL", "device", "job", "CODE", "TRUE", "FALSE",
               "broken", "END", "OK", "PAGES=1", "text"}
Codes      == {code \in Nat : code < 100000}
Units      == [kind: Kinds, code: Codes]
Conditions == {"media-empty", "not-selected", "fault", "manual-feed",
               "cover-open"}
LoadRequests == {{"media-empty"}, {"manual-feed"}}

ASSUME PjlAssumption ==
  /\ Frames \subseteq Seq(Units)
  /\ PortStatus \subseteq SUBSET Conditions
  /\ {Capacity, MaxPackets, PacketSize} \subseteq Nat \ {0}
  /\ {FrameLimit, ReleaseLimit} \subseteq Nat

VARIABLES
  \* the printer: what its endpoint holds, and how many frames it has said
  wire, said,
  \* the transport: connection ("closed", "deaf" without an input endpoint,
  \* "open"), output_generation, the parser's buffer and what it has understood
  connection, generation, frame, discarding, status,
  \* the poll: whether one goes on, transfers so far, what is left of the last
  \* one, how it ended; and the last poll's answer
  polling, packets, packet, ending, answer,
  \* the waiting job: its snapshot and what it has come to
  before, verdict,
  \* (ghost) what the parser was fed on this connection; the length of what the
  \* printer had said on it when the poll began; and where the snapshot was taken
  heard, owed, mark

printer   == <<wire, said>>
parser    == <<frame, discarding, status>>
poll      == <<polling, packets, packet, ending, answer>>
job       == <<before, verdict>>
vars      == <<printer, connection, generation, parser, poll, job,
               heard, owed, mark>>

Silent == [conditions |-> {}, code |-> 0, online |-> FALSE, completed |-> 0]
Unknown == {"unknown"}
NoSnapshot == [generation |-> 0, completed |-> 0]
NoMark == [same |-> FALSE, at |-> 0]

TypeOK ==
  /\ wire \in Seq(Units) /\ said \in 0..FrameLimit
  /\ connection \in {"closed", "deaf", "open"}
  /\ generation \in 0..ReleaseLimit
  /\ frame \in Seq(Units) /\ Len(frame) < Capacity /\ discarding \in BOOLEAN
  /\ status \in [conditions: SUBSET Conditions, code: Codes,
                 online: BOOLEAN, completed: Nat]
  /\ polling \in BOOLEAN /\ packets \in 0..MaxPackets /\ packet \in Seq(Units)
  /\ ending \in {"more", "last"}
  /\ answer \in (SUBSET Conditions) \union {Unknown}
  /\ before \in [generation: 0..ReleaseLimit, completed: Nat]
  /\ verdict \in {"none", "waiting", "completed", "failed"}
  /\ heard \in Seq(Units) /\ owed \in Nat
  /\ mark \in [same: BOOLEAN, at: Nat]

Init ==
  /\ wire = <<>> /\ said = 0
  /\ connection = "closed" /\ generation = 0
  /\ frame = <<>> /\ discarding = FALSE /\ status = Silent
  /\ polling = FALSE /\ packets = 0 /\ packet = <<>>
  /\ ending = "more" /\ answer = Unknown
  /\ before = NoSnapshot /\ verdict = "none"
  /\ heard = <<>> /\ owed = 0 /\ mark = NoMark

-----------------------------------------------------------------------------
(* The printer *)

Say ==
  /\ packet = <<>> /\ said < FrameLimit
  /\ said' = said + 1
  /\ \E f \in Frames : wire' = wire \o f
  /\ UNCHANGED <<connection, generation, parser, poll, job, heard, owed, mark>>

-----------------------------------------------------------------------------
(* The connection *)

\* hplj_libusb_claim: an alternate setting without bulk IN is accepted.
Claim ==
  /\ connection = "closed" /\ generation < ReleaseLimit
  /\ connection' \in {"deaf", "open"}
  /\ UNCHANGED <<printer, generation, parser, poll, job, heard, owed, mark>>

\* Mutant: the generation is left alone.
SameGeneration == generation' = generation

NextGeneration == generation' = generation + 1

\* memset of pjl_status
ForgetStatus == status' = Silent /\ frame' = <<>> /\ discarding' = FALSE

\* hplj_libusb_release. The printer may keep what it has not been asked for, or
\* lose it.
Release ==
  /\ connection' = "closed" /\ NextGeneration /\ ForgetStatus
  /\ polling' = FALSE /\ packets' = 0 /\ packet' = <<>>
  /\ ending' = "more" /\ answer' = Unknown
  /\ wire' \in {wire, <<>>}
  /\ heard' = <<>> /\ owed' = 0 /\ mark' = NoMark
  /\ UNCHANGED <<said, job>>

\* hplj_device_disconnect: by any call of the device, or by the poll that has
\* met an error (hplj_device_get_status)
Disconnect == connection # "closed" /\ Release

-----------------------------------------------------------------------------
(* pjl_status.c *)

Has(f, kinds)  == \E i \in DOMAIN f : f[i].kind \in kinds
Once(f, kinds) ==
  \E i \in DOMAIN f : \A j \in DOMAIN f : f[j].kind \in kinds <=> j = i

\* One page per PJL document, and the exact report of its end
IsEndReport(f) ==
  /\ Len(f) = 4
  /\ [i \in 1..4 |-> f[i].kind] = <<"job", "END", "OK", "PAGES=1">>

\* A device report with exactly one code and one online line
IsDeviceReport(f) ==
  /\ f # <<>> /\ f[1].kind = "device"
  /\ ~Has(f, {"broken"}) /\ Once(f, {"CODE"}) /\ Once(f, {"TRUE", "FALSE"})

Code(f)   == f[CHOOSE i \in DOMAIN f : f[i].kind = "CODE"].code
Online(f) == Has(f, {"TRUE"})

IsLoadRequest(code) == code >= 41000 /\ code < 42000
\* "10001 and online" ends a load request; processing and warm-up do not
IsReady(code, online) == code = 10001 /\ online

Stated(code, online) ==
  IF code = 40021 THEN {"cover-open"}
  ELSE IF IsLoadRequest(code)
    THEN IF (code \div 100) % 10 = 1 THEN {"manual-feed"} ELSE {"media-empty"}
  ELSE IF code >= 30000 THEN {"fault"}
  ELSE IF online THEN {} ELSE {"not-selected"}

Keeps(code, online) ==
  /\ status.conditions \in LoadRequests
  /\ code < 30000 /\ ~IsReady(code, online)

\* hplj_pjl_parse_frame: the status after a frame
Understood(f) ==
  IF IsEndReport(f) THEN [status EXCEPT !.completed = @ + 1]
  ELSE IF IsDeviceReport(f)
    THEN [status EXCEPT
            !.code = Code(f), !.online = Online(f),
            !.conditions = IF Keeps(Code(f), Online(f)) THEN @
                           ELSE Stated(Code(f), Online(f))]
  ELSE status

EndFrame ==
  /\ status' = IF discarding THEN status ELSE Understood(frame)
  /\ frame' = <<>> /\ discarding' = FALSE

\* Mutant: what does not fit is left out of the frame.
AppendFitting(unit) ==
  /\ frame' = IF unit.kind = "NUL" \/ Len(frame) + 1 >= Capacity THEN frame
              ELSE Append(frame, unit)
  /\ UNCHANGED <<discarding, status>>

AppendUnit(unit) ==
  /\ IF discarding THEN UNCHANGED <<frame, discarding>>
     ELSE IF unit.kind = "NUL" \/ Len(frame) + 1 >= Capacity
       THEN discarding' = TRUE /\ UNCHANGED frame
     ELSE frame' = Append(frame, unit) /\ UNCHANGED discarding
  /\ UNCHANGED status

\* hplj_pjl_status_feed, unit by unit
Feed ==
  /\ polling /\ packet # <<>>
  /\ packet' = Tail(packet) /\ heard' = Append(heard, Head(packet))
  /\ IF Head(packet).kind = "FF" THEN EndFrame ELSE AppendUnit(Head(packet))
  /\ UNCHANGED <<printer, connection, generation, polling, packets, ending,
                 answer, job, owed, mark>>

-----------------------------------------------------------------------------
(* hplj_libusb_status: a poll *)

\* The control transfer, without which there is no poll. Its byte goes into the
\* answer, which is complete without an input endpoint.
Poll ==
  /\ connection # "closed" /\ ~polling
  /\ polling' = (connection = "open")
  /\ answer' \in IF connection = "open" THEN {Unknown} ELSE PortStatus
  /\ packets' = 0 /\ ending' = "more"
  /\ owed' = Len(heard) + Len(wire)
  /\ UNCHANGED <<printer, connection, generation, parser, packet, job, heard,
                 mark>>

\* A transfer that brings something and succeeds, or runs out of time with
\* everything there was
Read ==
  /\ polling /\ packet = <<>> /\ ending = "more" /\ packets < MaxPackets
  /\ \E n \in 1..PacketSize :
       /\ n <= Len(wire)
       /\ packet' = SubSeq(wire, 1, n)
       /\ wire' = SubSeq(wire, n + 1, Len(wire))
       /\ packets' = packets + 1
       /\ ending' \in {"more"} \union {e \in {"last"} : n = Len(wire)}
  /\ UNCHANGED <<said, connection, generation, parser, polling, answer,
                 job, heard, owed, mark>>

Finish(conditions) ==
  /\ polling' = FALSE
  /\ \E port \in PortStatus :
       answer' = port \union status.conditions \union conditions
  /\ packets' = 0 /\ ending' = "more"
  /\ UNCHANGED <<printer, connection, generation, parser, packet, job, heard,
                 owed, mark>>

\* A quiet endpoint
Drained ==
  /\ polling /\ packet = <<>>
  /\ \/ ending = "last"
     \/ packets < MaxPackets /\ wire = <<>>
  /\ Finish({})

\* Mutant: the limit of a poll counts as its end.
TrustPartial == {}

\* "Do not treat a partially drained historical ready message as current."
Undrained == {"not-selected"}

Exhausted ==
  /\ polling /\ packet = <<>> /\ ending = "more" /\ packets = MaxPackets
  /\ Finish(Undrained)

-----------------------------------------------------------------------------
(* The job: hplj_rendpage, hplj_wait_for_output. Device calls exclude each  *)
(* other, and anything may happen between two of them.                      *)

Snapshot ==
  /\ ~polling /\ verdict # "waiting"
  /\ before' = [generation |-> generation, completed |-> status.completed]
  /\ verdict' = "waiting"
  /\ mark' = [same |-> TRUE, at |-> Len(heard)]
  /\ UNCHANGED <<printer, connection, generation, parser, poll, heard, owed>>

Supported == connection = "open"

Judge ==
  /\ ~polling /\ verdict = "waiting"
  /\ IF ~Supported \/ generation # before.generation THEN verdict' = "failed"
     ELSE status.completed > before.completed /\ verdict' = "completed"
  /\ before' = NoSnapshot /\ mark' = NoMark
  /\ UNCHANGED <<printer, connection, generation, parser, poll, heard, owed>>

\* The wait ends without an answer: a cancellation, the shutdown, or a minute
\* without a condition and without a report.
GiveUp ==
  /\ ~polling /\ verdict = "waiting" /\ verdict' = "none"
  /\ before' = NoSnapshot /\ mark' = NoMark
  /\ UNCHANGED <<printer, connection, generation, parser, poll, heard, owed>>

Next ==
  \/ Say
  \/ Claim \/ Disconnect
  \/ Poll \/ Read \/ Feed \/ Drained \/ Exhausted
  \/ Snapshot \/ Judge \/ GiveUp

Spec == Init /\ [][Next]_vars

-----------------------------------------------------------------------------
(* Properties *)

\* The frames of a stream, by the positions of their form feeds: those that fit
\* the buffer and hold no NUL.
FormFeeds(s) == {i \in DOMAIN s : s[i].kind = "FF"}
Start(s, i)  == Max({0} \union {j \in FormFeeds(s) : j < i})
FrameAt(s, i) == SubSeq(s, Start(s, i) + 1, i - 1)
Readable(s) ==
  {i \in FormFeeds(s) : /\ Len(FrameAt(s, i)) < Capacity
                        /\ ~Has(FrameAt(s, i), {"NUL"})}
EndReports(s)    == {i \in Readable(s) : IsEndReport(FrameAt(s, i))}
DeviceReports(s) == {i \in Readable(s) : IsDeviceReport(FrameAt(s, i))}

CodeAt(s, i)   == Code(FrameAt(s, i))
OnlineAt(s, i) == Online(FrameAt(s, i))

\* The reports that settle whether the printer asks for paper: a request, another
\* condition, or ready.
Settling(s) ==
  {i \in DeviceReports(s) : CodeAt(s, i) >= 30000
                              \/ IsReady(CodeAt(s, i), OnlineAt(s, i))}
\* A load request nothing has settled
Asking(s) ==
  Settling(s) # {} /\ IsLoadRequest(CodeAt(s, Max(Settling(s))))

StatedAt(s, i) == Stated(CodeAt(s, i), OnlineAt(s, i))
StatedLast(s) ==
  IF DeviceReports(s) = {} THEN {}
  ELSE IF Asking(s) THEN StatedAt(s, Max(Settling(s)))
  ELSE StatedAt(s, Max(DeviceReports(s)))
CodeLast(s) ==
  IF DeviceReports(s) = {} THEN 0 ELSE CodeAt(s, Max(DeviceReports(s)))
OnlineLast(s) ==
  DeviceReports(s) # {} /\ OnlineAt(s, Max(DeviceReports(s)))

\* What a whole stream means
Meaning(s) ==
  [conditions |-> StatedLast(s), code |-> CodeLast(s),
   online |-> OnlineLast(s), completed |-> Cardinality(EndReports(s))]

\* Whatever the boundaries of transfers and polls, frames too long for the buffer,
\* NULs, and halves of frames from before a reconnection: the status is what the
\* whole frames heard on this connection mean, with a load request that stands
\* until ready, another request or another condition.
StatusIsOfTheStream == status = Meaning(heard)

\* A poll that finds nothing wrong has heard everything the printer had said
\* when the poll began, and no load request stands in it; a poll that gives up on
\* a printer that keeps talking does not say so.
NothingWrongIsCurrent ==
  answer = {} /\ connection = "open" =>
    Len(heard) >= owed /\ ~Asking(heard)

\* A page is called complete only when a whole report of a successful end was
\* heard on the connection of its snapshot, after it; and called lost only when
\* that connection is gone or tells nothing.
VerdictIsRight ==
  [][verdict = "waiting" =>
       /\ verdict' = "completed" =>
            mark.same /\ \E i \in EndReports(heard) : i > mark.at
       /\ verdict' = "failed" => ~mark.same \/ connection # "open"]_vars
=============================================================================
