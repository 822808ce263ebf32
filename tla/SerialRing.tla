----------------------------- MODULE SerialRing -----------------------------
(***************************************************************************)
(* serial.c: the UART of the target.  Its receive ring is filled by the    *)
(* interrupt handler and drained by rvl_serial_getchar in the main loop;   *)
(* nothing but the order of the accesses keeps the two apart.  The handler *)
(* is one step, as the main loop cannot interrupt it; getchar is three.    *)
(* putchar hands a byte to the transmit register when that is empty.       *)
(***************************************************************************)
EXTENDS Integers, Sequences

CONSTANT RingSize       \* sizeof(recv_buf.buffer)

ASSUME RingSizeAssumption == RingSize \in Nat \ {0, 1}

NoByte == -1            \* an empty transmit register; a slot never written

VARIABLES
  ring, head, tail,     \* recv_buf
  getPc,                \* the statement of getchar that comes next
  c,                    \* the byte it has read
  txReg                 \* the transmit data register

ringVars == <<ring, head, tail>>
getVars == <<getPc, c>>
serialVars == <<ringVars, getVars, txReg>>

SerialInit ==
  /\ ring = [i \in 0 .. RingSize - 1 |-> NoByte]
  /\ head = 0 /\ tail = 0
  /\ getPc = "check" /\ c = NoByte
  /\ txReg = NoByte

\* Mutation: the index wraps one slot too late.
AdvanceLate(i) == IF i + 1 > RingSize THEN 0 ELSE i + 1

Advance(i) == IF i + 1 >= RingSize THEN 0 ELSE i + 1

\* The bytes between a tail t and a head h, oldest first.
Count(h, t) == IF h >= t THEN h - t ELSE h - t + RingSize
Slot(t, i) == IF t + i - 1 >= RingSize THEN t + i - 1 - RingSize ELSE t + i - 1
Between(r, h, t) == [i \in 1 .. Count(h, t) |-> r[Slot(t, i)]]

Contents == Between(ring, head, tail)

(***************************************************************************)
(* USARTn_IRQHandler with rvl_serial_recv_buf_put.                         *)
(***************************************************************************)
\* Mutation: the ring is taken for full one byte too late.
PutOverruns(byte) ==
  /\ ring' = [ring EXCEPT ![head] = byte]
  /\ head' = Advance(head)
  /\ UNCHANGED <<tail, getVars, txReg>>

RecvBufPut(byte) ==
  /\ IF tail # Advance(head)
       THEN /\ ring' = [ring EXCEPT ![head] = byte]
            /\ head' = Advance(head)
       ELSE UNCHANGED <<ring, head>>
  /\ UNCHANGED <<tail, getVars, txReg>>

(***************************************************************************)
(* rvl_serial_getchar.  GetEmpty is the case in which it waits.            *)
(***************************************************************************)
GetEmpty == getPc = "check" /\ tail = head

GetCheck ==
  /\ getPc = "check" /\ tail # head
  /\ getPc' = "read"
  /\ UNCHANGED <<ringVars, c, txReg>>

GetRead ==
  /\ getPc = "read"
  /\ c' = ring[tail]
  /\ getPc' = "return"
  /\ UNCHANGED <<ringVars, txReg>>

GetReturn ==
  /\ getPc = "return"
  /\ tail' = Advance(tail)
  /\ getPc' = "check"
  /\ UNCHANGED <<ring, head, c, txReg>>

(***************************************************************************)
(* rvl_serial_putchar, and the shift register that takes the byte away.    *)
(***************************************************************************)
\* Mutation: the register is not waited for.
PutcharUnchecked(byte) ==
  /\ txReg' = byte
  /\ UNCHANGED <<ringVars, getVars>>

Putchar(byte) ==
  /\ txReg = NoByte
  /\ txReg' = byte
  /\ UNCHANGED <<ringVars, getVars>>

ShiftOut ==
  /\ txReg # NoByte
  /\ txReg' = NoByte
  /\ UNCHANGED <<ringVars, getVars>>

SerialTypeOK ==
  /\ ring \in [0 .. RingSize - 1 -> Nat \cup {NoByte}]
  /\ head \in 0 .. RingSize - 1 /\ tail \in 0 .. RingSize - 1
  /\ getPc \in {"check", "read", "return"}
  /\ c \in Nat \cup {NoByte} /\ txReg \in Nat \cup {NoByte}
=============================================================================
