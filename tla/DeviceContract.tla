--------------------------- MODULE DeviceContract ---------------------------
(***************************************************************************)
(* What src/device.c promises to the job lifecycle and the service: a call *)
(* of the device API starts in certain states, takes a while and ends in   *)
(* one of a few combinations of device state, held handle and result. How  *)
(* the call got there (attempts, reconnections, uploads) is hidden.        *)
(*                                                                         *)
(* HpljDevice implements this specification; HpljService is built on its   *)
(* sets of endings, kept in DeviceEndings.                                 *)
(***************************************************************************)
EXTENDS DeviceEndings

VARIABLES
  status,    \* the device state between two calls, "BUSY" during one
  held,      \* does the device hold a handle? FALSE during a call
  running,   \* the call in progress
  result     \* how the last call ended

vars == <<status, held, running, result>>

\* The states a call that reaches the printer starts from.
StartsIn == [connect    |-> {"DISCONNECTED"},
             bootstrap  |-> {"PRE_FIRMWARE", "AWAITING_FIRMWARE"},
             send       |-> {"READY"},
             send_once  |-> {"READY"},
             revalidate |-> {"READY"},
             get_status |-> {"READY"}]

Ops == DOMAIN Endings

ResultOf(name, e) == [op |-> name, category |-> e.category,
                      retry |-> e.retry, bytes |-> e.bytes]

-----------------------------------------------------------------------------
Init == /\ status = "DISCONNECTED" /\ held = FALSE /\ running = "none"
        /\ result = [op |-> "none", category |-> "NONE",
                     retry |-> "SAFE_AUTOMATIC", bytes |-> 0]

Start(name) ==
  /\ running = "none" /\ status \in StartsIn[name]
  /\ running' = name /\ status' = "BUSY" /\ held' = FALSE
  /\ UNCHANGED result

Finish(name) ==
  /\ running = name
  /\ \E e \in Endings[name] :
       /\ status' = e.status /\ held' = e.held
       /\ result' = ResultOf(name, e)
  /\ running' = "none"

\* Endings that need no callback: the firmware is already there, is missing,
\* or is the wrong one; the job was cancelled; the state does not allow the
\* call.
AtOnce(name, category, retry, newStatus) ==
  /\ running = "none"
  /\ status' = newStatus
  /\ result' = [op |-> name, category |-> category, retry |-> retry, bytes |-> 0]
  /\ UNCHANGED <<held, running>>

FirmwareKnown ==
  /\ status \in {"READY", "FIRMWARE_PRESENT"}
  /\ \/ AtOnce("bootstrap", "NONE", "SAFE_AUTOMATIC", "READY")
     \/ AtOnce("bootstrap", "FIRMWARE_UNVERIFIED", "EXPLICIT",
               "FIRMWARE_UNVERIFIED")

FirmwareAbsent ==
  /\ status \in {"PRE_FIRMWARE", "AWAITING_FIRMWARE"}
  /\ \/ AtOnce("bootstrap", "FIRMWARE_MISSING", "NEVER", "AWAITING_FIRMWARE")
     \/ AtOnce("bootstrap", "FIRMWARE_UNVERIFIED", "EXPLICIT",
               "FIRMWARE_UNVERIFIED")

Cancelled == /\ status = "READY"
             /\ \E name \in {"send", "send_once"} :
                  AtOnce(name, "CANCELLED", "NEVER", "READY")

Refused == \E name \in Ops :
             /\ status \notin StartsIn[name]
             /\ AtOnce(name, "INVALID_STATE", "NEVER", status)

Disconnect == /\ running = "none"
              /\ status' = "DISCONNECTED" /\ held' = FALSE
              /\ UNCHANGED <<running, result>>

Next == \/ \E name \in Ops : Start(name) \/ Finish(name)
        \/ FirmwareKnown \/ FirmwareAbsent \/ Cancelled \/ Refused
        \/ Disconnect

Spec == Init /\ [][Next]_vars
=============================================================================
