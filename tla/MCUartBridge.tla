---------------------------- MODULE MCUartBridge ----------------------------
(***************************************************************************)
(* UartBridge with a ring of four slots (three bytes) and batches of two.  *)
(***************************************************************************)
EXTENDS UartBridge
=============================================================================
