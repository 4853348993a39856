--------------------------- MODULE DeviceEndings ---------------------------
(***************************************************************************)
(* How a call of the device API that reaches the printer may end: the      *)
(* device state it leaves behind, whether the device still holds a USB     *)
(* handle, the error category, the retry class and the transferred bytes.  *)
(***************************************************************************)
EXTENDS Naturals

CONSTANT ChunkBytes    \* byte_count of a print transfer

Faults == {"DEVICE_TIMEOUT", "DEVICE_PROTOCOL", "DEVICE_DISCONNECTED"}

Ending(s, h, c, r, b) ==
  [status |-> s, held |-> h, category |-> c, retry |-> r, bytes |-> b]

\* hplj_device_connect
ConnectEndings ==
  {Ending(s, TRUE, "NONE", "SAFE_AUTOMATIC", 0) :
     s \in {"PRE_FIRMWARE", "FIRMWARE_PRESENT"}}
  \union {Ending("DISCONNECTED", FALSE, c, "EXPLICIT", 0) : c \in Faults}
  \union {Ending("DISCONNECTED", FALSE, "DEVICE_PROTOCOL", "SAFE_AUTOMATIC", 0),
          Ending("UNSUPPORTED", FALSE, "UNSUPPORTED_DEVICE", "EXPLICIT", 0)}

\* hplj_device_bootstrap_firmware once it has to upload
UploadEndings ==
  {Ending("READY", TRUE, "NONE", "SAFE_AUTOMATIC", 0),
   Ending("UNSUPPORTED", FALSE, "UNSUPPORTED_DEVICE", "EXPLICIT", 0),
   Ending("DISCONNECTED", FALSE, "DEVICE_PROTOCOL", "EXPLICIT", 0),
   Ending("DISCONNECTED", FALSE, "DEVICE_PROTOCOL", "SAFE_AUTOMATIC", 0),
   Ending("FIRMWARE_UNVERIFIED", FALSE, "DEVICE_PROTOCOL", "EXPLICIT", 0),
   Ending("FIRMWARE_TRANSFER_FAILED", FALSE, "FIRMWARE_TRANSFER_FAILED",
          "EXPLICIT", 0)}
  \union {Ending("FIRMWARE_UNVERIFIED", h, "FIRMWARE_UNVERIFIED", "EXPLICIT", 0)
            : h \in BOOLEAN}

\* hplj_device_send and hplj_device_send_once, cut short after b bytes or not
CutShortEndings(b) ==
  {Ending("DISCONNECTED", FALSE, c, "EXPLICIT", b) :
     c \in Faults \union {"TRANSFER_INCOMPLETE"}}

SendEndings ==
  {Ending("READY", TRUE, "NONE", "SAFE_AUTOMATIC", ChunkBytes),
   Ending("DISCONNECTED", FALSE, "DEVICE_PROTOCOL", "EXPLICIT", ChunkBytes + 1)}
  \union (UNION {CutShortEndings(b) : b \in 1..ChunkBytes})
  \union {Ending("DISCONNECTED", FALSE, c, "SAFE_AUTOMATIC", 0) :
            c \in {"DEVICE_DISCONNECTED", "DEVICE_PROTOCOL"}}
  \union {Ending("READY", TRUE, c, "EXPLICIT", 0) :
            c \in {"DEVICE_TIMEOUT", "TRANSFER_INCOMPLETE"}}

\* hplj_device_revalidate
RevalidateEndings ==
  {Ending("READY", TRUE, "NONE", "SAFE_AUTOMATIC", 0),
   Ending("UNSUPPORTED", FALSE, "UNSUPPORTED_DEVICE", "EXPLICIT", 0),
   Ending("PRE_FIRMWARE", TRUE, "FIRMWARE_MISSING", "SAFE_AUTOMATIC", 0),
   Ending("FIRMWARE_UNVERIFIED", FALSE, "FIRMWARE_UNVERIFIED", "EXPLICIT", 0)}
  \union {Ending("DISCONNECTED", FALSE, c, "SAFE_AUTOMATIC", 0) : c \in Faults}

\* hplj_device_get_status
StatusEndings ==
  {Ending("READY", TRUE, "NONE", "SAFE_AUTOMATIC", 0)}
  \union {Ending("DISCONNECTED", FALSE, c, "SAFE_AUTOMATIC", 0) : c \in Faults}

\* How a call that reaches the printer may end.
Endings == [connect    |-> ConnectEndings,
            bootstrap  |-> UploadEndings,
            send       |-> SendEndings,
            send_once  |-> SendEndings,
            revalidate |-> RevalidateEndings,
            get_status |-> StatusEndings]
=============================================================================
