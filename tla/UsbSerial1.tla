----------------------------- MODULE UsbSerial1 -----------------------------
(***************************************************************************)
(* usb-serial1.c and the data handlers of cdc_acm_core.c: the two          *)
(* protothreads that move bytes between the CDC ACM endpoints of interface *)
(* 1 and the packet pipes, and the interrupt handlers that tell them that  *)
(* a transfer has ended.                                                   *)
(*                                                                         *)
(* A protothread runs from one PT_WAIT_UNTIL to the next without giving up *)
(* the main loop, but the USB interrupt may come between any two of its    *)
(* statements: clearing a flag and starting the transfer that sets it are  *)
(* two steps.  recvPc and sendPc name the statement to execute next.       *)
(***************************************************************************)
EXTENDS GdbPacket

CONSTANT MaxPacket      \* CDC_ACM_DATA_PACKET_SIZE and the IN max_len

ASSUME MaxPacketAssumption == MaxPacket \in Nat \ {0}

Idle == -1

VARIABLES
  configured,   \* USB_OTG_dev.dev.cur_status = USBD_CONFIGURED
  recvPc, received, recvBuf, outArmed,
  sendPc, sent,
  inXfer        \* xfer_len of the transfer under way on the IN endpoint

recvVars == <<recvPc, received, recvBuf, outArmed>>
sendVars == <<sendPc, sent, inXfer>>
usbVars == <<configured, recvVars, sendVars>>

UsbInit ==
  /\ configured = FALSE
  /\ recvPc = "config" /\ received = FALSE /\ recvBuf = <<>> /\ outArmed = FALSE
  /\ sendPc = "config" /\ sent = FALSE /\ inXfer = Idle

(***************************************************************************)
(* rvl_usb_serial1_recv_poll                                               *)
(***************************************************************************)
RecvBlocked ==
  \/ recvPc = "config" /\ ~configured
  \/ recvPc = "wait" /\ ~received
  \/ recvPc = "push" /\ ~CommandAccepts(recvBuf)

RecvConfigured ==
  /\ recvPc = "config" /\ configured
  /\ recvPc' = "clear"
  /\ UNCHANGED <<command, received, recvBuf, outArmed>>

RecvClear ==
  /\ recvPc = "clear"
  /\ received' = FALSE
  /\ recvPc' = "arm"
  /\ UNCHANGED <<command, recvBuf, outArmed>>

RecvArm ==
  /\ recvPc = "arm"
  /\ outArmed' = TRUE
  /\ recvPc' = "wait"
  /\ UNCHANGED <<command, received, recvBuf>>

RecvWait ==
  /\ recvPc = "wait" /\ received
  /\ recvPc' = "push"
  /\ UNCHANGED <<command, received, recvBuf, outArmed>>

RecvPush ==
  /\ recvPc = "push"
  /\ ProcessCommand(recvBuf)
  /\ recvPc' = "clear"
  /\ UNCHANGED <<received, recvBuf, outArmed>>

Recv ==
  /\ RecvConfigured \/ RecvClear \/ RecvArm \/ RecvWait \/ RecvPush
  /\ UNCHANGED <<response, configured, sendVars>>

(***************************************************************************)
(* rvl_usb_serial1_send_poll                                               *)
(***************************************************************************)
SendBlocked ==
  \/ sendPc = "config" /\ ~configured
  \/ sendPc = "get" /\ ~ResponseReady
  \/ sendPc = "wait" /\ ~sent

SendConfigured ==
  /\ sendPc = "config" /\ configured
  /\ sendPc' = "get"
  /\ UNCHANGED <<response, sent, inXfer>>

SendGet ==
  /\ sendPc = "get" /\ ResponseReady
  /\ sendPc' = "clear"
  /\ UNCHANGED <<response, sent, inXfer>>

SendClear ==
  /\ sendPc = "clear"
  /\ sent' = FALSE
  /\ sendPc' = "submit"
  /\ UNCHANGED <<response, inXfer>>

\* usbd_ep_send: from here on the USB core reads the response buffer.
SendSubmit ==
  /\ sendPc = "submit"
  /\ inXfer' = response.len
  /\ sendPc' = "wait"
  /\ UNCHANGED <<response, sent>>

\* Mutation: the buffer is released while the USB core still reads it.
SendReleaseEarly ==
  /\ sendPc = "wait"
  /\ ReleaseResponse
  /\ sendPc' = "get"
  /\ UNCHANGED <<sent, inXfer>>

SendRelease ==
  /\ sendPc = "wait" /\ sent
  /\ ReleaseResponse
  /\ sendPc' = "get"
  /\ UNCHANGED <<sent, inXfer>>

Send ==
  /\ SendConfigured \/ SendGet \/ SendClear \/ SendSubmit \/ SendRelease
  /\ UNCHANGED <<command, configured, recvVars>>

(***************************************************************************)
(* The interrupt handlers.                                                 *)
(***************************************************************************)
\* cdc_acm_core_data_out_handler: a packet of the host has arrived.
DataOut(bytes) ==
  /\ outArmed
  /\ outArmed' = FALSE
  /\ recvBuf' = bytes
  /\ received' = TRUE
  /\ UNCHANGED <<packetVars, configured, recvPc, sendVars>>

\* Mutation: the end of a transfer that needed an empty packet is not reported.
DataInForgets ==
  /\ inXfer # Idle
  /\ IF inXfer # 0 /\ inXfer % MaxPacket = 0
       THEN inXfer' = 0 /\ UNCHANGED sent
       ELSE inXfer' = Idle /\ sent' = (inXfer # 0)
  /\ UNCHANGED <<packetVars, configured, recvVars, sendPc>>

\* cdc_acm_core_data_in_handler: the host has read the whole transfer; one
\* that fills its last packet is ended by a packet of length zero.
DataIn ==
  /\ inXfer # Idle
  /\ IF inXfer # 0 /\ inXfer % MaxPacket = 0
       THEN inXfer' = 0 /\ UNCHANGED sent
       ELSE inXfer' = Idle /\ sent' = TRUE
  /\ UNCHANGED <<packetVars, configured, recvVars, sendPc>>

\* The host has configured the device (SET_CONFIGURATION).
Configure ==
  /\ ~configured
  /\ configured' = TRUE
  /\ UNCHANGED <<packetVars, recvVars, sendVars>>

UsbTypeOK ==
  /\ PacketTypeOK
  /\ configured \in BOOLEAN
  /\ recvPc \in {"config", "clear", "arm", "wait", "push"}
  /\ received \in BOOLEAN /\ outArmed \in BOOLEAN
  /\ recvBuf \in Seq(Byte)
  /\ sendPc \in {"config", "get", "clear", "submit", "wait"}
  /\ sent \in BOOLEAN
  /\ inXfer \in Nat \cup {Idle}
=============================================================================
