---------------------------- MODULE UartChannel ----------------------------
(***************************************************************************)
(* What the UART bridge promises for the bytes the target prints: they     *)
(* reach the host in order and once, and a byte is dropped only when       *)
(* Capacity older ones are waiting.  Byte n is the n-th the target sends.  *)
(***************************************************************************)
EXTENDS Naturals, Sequences

CONSTANT Capacity

VARIABLES
  offered,      \* how many bytes the target has sent
  queue,        \* those that wait
  out           \* those that have gone on to the host, in order

Init == offered = 0 /\ queue = <<>> /\ out = <<>>

Offer ==
  /\ offered' = offered + 1
  /\ queue' = IF Len(queue) < Capacity THEN Append(queue, offered') ELSE queue
  /\ UNCHANGED out

Take ==
  /\ queue # <<>>
  /\ out' = Append(out, Head(queue))
  /\ queue' = Tail(queue)
  /\ UNCHANGED offered

Next == Offer \/ Take

Spec == Init /\ [][Next]_<<offered, queue, out>>
=============================================================================
