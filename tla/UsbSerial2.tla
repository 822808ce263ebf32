----------------------------- MODULE UsbSerial2 -----------------------------
(***************************************************************************)
(* usb-serial2.c and the data handlers of its endpoints in cdc_acm_core.c: *)
(* the two protothreads of USB port 2, one for each direction of the UART  *)
(* bridge.  As in port 1, an interrupt handler may come between any two    *)
(* statements; recvPc and sendPc name the one that comes next.             *)
(***************************************************************************)
EXTENDS SerialRing

CONSTANT BufferSize     \* CDC_ACM_DATA_PACKET_SIZE: both buffers, and max_len

ASSUME BufferSizeAssumption == BufferSize \in Nat \ {0}

Idle == -1

VARIABLES
  configured,           \* USB_OTG_dev.dev.cur_status = USBD_CONFIGURED
  recvPc, received, recvBuf, recvIdx, outArmed,
  sendPc, sent,
  sendBuf,              \* the first i bytes of usb_send_buffer
  inXfer                \* xfer_len of the transfer under way on the IN endpoint

recvVars == <<recvPc, received, recvBuf, recvIdx, outArmed>>
sendVars == <<sendPc, sent, sendBuf, inXfer>>
usbVars == <<configured, recvVars, sendVars>>

UsbInit ==
  /\ configured = FALSE
  /\ recvPc = "config" /\ received = FALSE
  /\ recvBuf = <<>> /\ recvIdx = 0 /\ outArmed = FALSE
  /\ sendPc = "config" /\ sent = FALSE /\ sendBuf = <<>> /\ inXfer = Idle

(***************************************************************************)
(* rvl_usb_serial2_recv_poll: from the host to the UART.                   *)
(***************************************************************************)
RecvBlocked ==
  \/ recvPc = "config" /\ ~configured
  \/ recvPc = "wait" /\ ~received
  \/ recvPc = "put" /\ recvIdx < Len(recvBuf) /\ txReg # NoByte

RecvConfigured ==
  /\ recvPc = "config" /\ configured
  /\ recvPc' = "clear"
  /\ UNCHANGED <<serialVars, received, recvBuf, recvIdx, outArmed>>

\* Mutation: the flag of the last packet is left up.
RecvKeeps ==
  /\ recvPc = "clear"
  /\ recvPc' = "arm"
  /\ UNCHANGED <<serialVars, received, recvBuf, recvIdx, outArmed>>

\* Mutation: the endpoint is armed once and for all.
RecvNeverArms ==
  /\ recvPc = "clear"
  /\ received' = FALSE
  /\ recvPc' = "wait"
  /\ UNCHANGED <<serialVars, recvBuf, recvIdx, outArmed>>

RecvClear ==
  /\ recvPc = "clear"
  /\ received' = FALSE
  /\ recvPc' = "arm"
  /\ UNCHANGED <<serialVars, recvBuf, recvIdx, outArmed>>

RecvArm ==
  /\ recvPc = "arm"
  /\ outArmed' = TRUE
  /\ recvPc' = "wait"
  /\ UNCHANGED <<serialVars, received, recvBuf, recvIdx>>

RecvWait ==
  /\ recvPc = "wait" /\ received
  /\ recvIdx' = 0
  /\ recvPc' = "put"
  /\ UNCHANGED <<serialVars, received, recvBuf, outArmed>>

RecvPut ==
  /\ recvPc = "put" /\ recvIdx < Len(recvBuf)
  /\ Putchar(recvBuf[recvIdx + 1])
  /\ recvIdx' = recvIdx + 1
  /\ UNCHANGED <<recvPc, received, recvBuf, outArmed>>

RecvAgain ==
  /\ recvPc = "put" /\ recvIdx >= Len(recvBuf)
  /\ recvPc' = "clear"
  /\ UNCHANGED <<serialVars, received, recvBuf, recvIdx, outArmed>>

Recv ==
  /\ \/ RecvConfigured \/ RecvClear \/ RecvArm
     \/ RecvWait \/ RecvPut \/ RecvAgain
  /\ UNCHANGED <<configured, sendVars>>

(***************************************************************************)
(* rvl_usb_serial2_send_poll: from the ring to the host.  It waits for the *)
(* first byte of a batch, and takes the others while there are any and the *)
(* buffer has room.                                                        *)
(***************************************************************************)
SendBlocked ==
  \/ sendPc = "config" /\ ~configured
  \/ sendPc = "first" /\ GetEmpty
  \/ sendPc = "wait" /\ ~sent

SendConfigured ==
  /\ sendPc = "config" /\ configured
  /\ sendPc' = "first"
  /\ UNCHANGED <<serialVars, sent, sendBuf, inXfer>>

SendGet ==
  /\ sendPc \in {"first", "more"}
  /\ GetCheck \/ GetRead
  /\ UNCHANGED <<sendPc, sent, sendBuf, inXfer>>

SendStore ==
  /\ sendPc \in {"first", "more"}
  /\ GetReturn
  /\ sendBuf' = IF sendPc = "first" THEN <<c>> ELSE Append(sendBuf, c)
  /\ sendPc' = IF Len(sendBuf') >= BufferSize THEN "clear" ELSE "more"
  /\ UNCHANGED <<sent, inXfer>>

SendEnough ==
  /\ sendPc = "more" /\ GetEmpty
  /\ sendPc' = "clear"
  /\ UNCHANGED <<serialVars, sent, sendBuf, inXfer>>

SendClear ==
  /\ sendPc = "clear"
  /\ sent' = FALSE
  /\ sendPc' = "submit"
  /\ UNCHANGED <<serialVars, sendBuf, inXfer>>

SendSubmit ==
  /\ sendPc = "submit"
  /\ inXfer' = Len(sendBuf)
  /\ sendPc' = "wait"
  /\ UNCHANGED <<serialVars, sent, sendBuf>>

SendWait ==
  /\ sendPc = "wait" /\ sent
  /\ sendPc' = "first"
  /\ UNCHANGED <<serialVars, sent, sendBuf, inXfer>>

Send ==
  /\ \/ SendConfigured \/ SendGet \/ SendStore \/ SendEnough
     \/ SendClear \/ SendSubmit \/ SendWait
  /\ UNCHANGED <<configured, recvVars>>

(***************************************************************************)
(* The interrupt handlers of the endpoints.                                *)
(***************************************************************************)
\* cdc_acm_core_data_out_handler: a packet of the host has arrived.
DataOut(bytes) ==
  /\ outArmed
  /\ outArmed' = FALSE
  /\ recvBuf' = bytes
  /\ received' = TRUE
  /\ UNCHANGED <<serialVars, configured, recvPc, recvIdx, sendVars>>

\* Mutation: the end of a transfer that needed an empty packet is not reported.
DataInForgets ==
  /\ inXfer # Idle
  /\ IF inXfer # 0 /\ inXfer % BufferSize = 0
       THEN inXfer' = 0 /\ UNCHANGED sent
       ELSE inXfer' = Idle /\ sent' = (inXfer # 0)
  /\ UNCHANGED <<serialVars, configured, recvVars, sendPc, sendBuf>>

\* cdc_acm_core_data_in_handler: the host has read the whole transfer; one
\* that fills its last packet is ended by a packet of length zero.
DataIn ==
  /\ inXfer # Idle
  /\ IF inXfer # 0 /\ inXfer % BufferSize = 0
       THEN inXfer' = 0 /\ UNCHANGED sent
       ELSE inXfer' = Idle /\ sent' = TRUE
  /\ UNCHANGED <<serialVars, configured, recvVars, sendPc, sendBuf>>

Configure ==
  /\ ~configured
  /\ configured' = TRUE
  /\ UNCHANGED <<serialVars, recvVars, sendVars>>

UsbTypeOK ==
  /\ SerialTypeOK
  /\ configured \in BOOLEAN
  /\ recvPc \in {"config", "clear", "arm", "wait", "put"}
  /\ received \in BOOLEAN /\ outArmed \in BOOLEAN
  /\ recvBuf \in Seq(Nat) /\ recvIdx \in Nat
  /\ sendPc \in {"config", "first", "more", "clear", "submit", "wait"}
  /\ sent \in BOOLEAN
  /\ sendBuf \in Seq(Nat \cup {NoByte})
  /\ inXfer \in Nat \cup {Idle}
=============================================================================
