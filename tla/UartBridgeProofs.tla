-------------------------- MODULE UartBridgeProofs --------------------------
(***************************************************************************)
(* Theorems about UartBridge, for every size of the ring and of a packet.  *)
(***************************************************************************)
EXTENDS UartBridge, SequenceTheorems, TLAPS

ByteOrNone == Nat \cup {NoByte}
Indices == 0 .. RingSize - 1

(***************************************************************************)
(* The ring.                                                               *)
(***************************************************************************)
\* The bytes in the ring are never more than its size less one, and each has a slot.
LEMMA BetweenType ==
  ASSUME NEW r \in [Indices -> ByteOrNone], NEW h \in Indices, NEW t \in Indices
  PROVE  /\ Count(h, t) \in Indices
         /\ \A i \in 1 .. Count(h, t) : Slot(t, i) \in Indices
         /\ Between(r, h, t) \in Seq(ByteOrNone)
         /\ Len(Between(r, h, t)) = Count(h, t)
         /\ Between(r, h, t) = <<>> <=> t = h
<1>1. Count(h, t) \in Indices /\ Count(h, t) \in Nat
  BY RingSizeAssumption DEF Indices, Count
<1>2. \A i \in 1 .. Count(h, t) : Slot(t, i) \in Indices
  BY RingSizeAssumption DEF Indices, Count, Slot
<1>3. Between(r, h, t) \in [1 .. Count(h, t) -> ByteOrNone]
  BY <1>2 DEF Between
<1>4. Between(r, h, t) \in Seq(ByteOrNone)
  BY <1>1, <1>3
<1>5. Len(Between(r, h, t)) = Count(h, t)
  BY <1>1, <1>3, <1>4, LenProperties
<1>6. Between(r, h, t) = <<>> <=> Count(h, t) = 0
  BY <1>1, <1>4, <1>5, EmptySeq
<1>7. Count(h, t) = 0 <=> t = h
  BY RingSizeAssumption DEF Indices, Count
<1> QED
  BY <1>1, <1>2, <1>4, <1>5, <1>6, <1>7

\* Writing the slot of the head and moving the head appends a byte.
LEMMA PutAppends ==
  ASSUME NEW r \in [Indices -> ByteOrNone], NEW h \in Indices, NEW t \in Indices,
         NEW b \in ByteOrNone, t # Advance(h)
  PROVE  /\ Between([r EXCEPT ![h] = b], Advance(h), t) = Append(Between(r, h, t), b)
         /\ Count(h, t) < RingSize - 1
<1> DEFINE r2 == [r EXCEPT ![h] = b]
           h2 == Advance(h)
           old == Between(r, h, t)
           new == Between(r2, h2, t)
           n == Count(h, t)
<1>1. /\ r2 \in [Indices -> ByteOrNone] /\ h2 \in Indices
      /\ r2[h] = b
      /\ \A j \in Indices : j # h => r2[j] = r[j]
  BY RingSizeAssumption DEF Indices, Advance
<1>2. n < RingSize - 1 /\ Count(h2, t) = n + 1 /\ n \in Nat
  BY RingSizeAssumption DEF Indices, Count, Advance
<1>3. \A i \in 1 .. n : Slot(t, i) # h /\ Slot(t, i) \in Indices
  BY RingSizeAssumption DEF Indices, Count, Slot
<1>4. Slot(t, n + 1) = h
  BY RingSizeAssumption DEF Indices, Count, Slot
<1> HIDE DEF r2, h2
<1>5. old \in Seq(ByteOrNone) /\ Len(old) = n
  BY BetweenType
<1>6. new \in Seq(ByteOrNone) /\ Len(new) = n + 1
  BY <1>1, <1>2, BetweenType
<1>7. \A i \in 1 .. n + 1 : new[i] = r2[Slot(t, i)]
  BY <1>2 DEF Between
<1>8. \A i \in 1 .. n : old[i] = r[Slot(t, i)]
  BY DEF Between
<1>9. /\ Append(old, b) \in Seq(ByteOrNone)
      /\ Len(Append(old, b)) = n + 1
      /\ \A i \in 1 .. n : Append(old, b)[i] = old[i]
      /\ Append(old, b)[n + 1] = b
  BY <1>5, AppendProperties
<1> HIDE DEF old, new, n
<1>10. ASSUME NEW i \in 1 .. n + 1  PROVE  new[i] = Append(old, b)[i]
  <2>1. CASE i = n + 1
    BY <2>1, <1>1, <1>4, <1>7, <1>9
  <2>2. CASE i # n + 1
    <3>1. i \in 1 .. n
      BY <2>2, <1>2
    <3>2. r2[Slot(t, i)] = r[Slot(t, i)]
      BY <3>1, <1>1, <1>3
    <3> QED
      BY <3>1, <3>2, <1>7, <1>8, <1>9
  <2> QED
    BY <2>1, <2>2
<1>11. new = Append(old, b)
  BY <1>6, <1>9, <1>10, SeqEqual
<1> QED
  BY <1>2, <1>11 DEF old, new, n, r2, h2

\* The ring is full when the head would meet the tail.
LEMMA FullRing ==
  ASSUME NEW h \in Indices
  PROVE  Count(h, Advance(h)) = RingSize - 1
BY RingSizeAssumption DEF Indices, Count, Advance

\* Moving the tail takes the oldest byte away.
LEMMA AdvanceTakes ==
  ASSUME NEW r \in [Indices -> ByteOrNone], NEW h \in Indices, NEW t \in Indices,
         t # h
  PROVE  /\ Between(r, h, t) # <<>>
         /\ Head(Between(r, h, t)) = r[t]
         /\ Between(r, h, Advance(t)) = Tail(Between(r, h, t))
<1> DEFINE old == Between(r, h, t)
           new == Between(r, h, Advance(t))
           n == Count(h, t)
<1>1. Advance(t) \in Indices
  BY RingSizeAssumption DEF Indices, Advance
<1>2. n \in Nat /\ n > 0 /\ Count(h, Advance(t)) = n - 1
  BY RingSizeAssumption DEF Indices, Count, Advance
<1>3. Slot(t, 1) = t
  BY RingSizeAssumption DEF Indices, Slot
<1>4. \A i \in 1 .. n - 1 : Slot(Advance(t), i) = Slot(t, i + 1)
  BY RingSizeAssumption DEF Indices, Count, Slot, Advance
<1>5. old \in Seq(ByteOrNone) /\ Len(old) = n /\ old # <<>>
  BY BetweenType
<1>6. new \in Seq(ByteOrNone) /\ Len(new) = n - 1
  BY <1>1, <1>2, BetweenType
<1>7. \A i \in 1 .. n : old[i] = r[Slot(t, i)]
  BY DEF Between
<1>8. \A i \in 1 .. n - 1 : new[i] = r[Slot(Advance(t), i)]
  BY <1>2 DEF Between
<1> HIDE DEF old, new, n
<1>9. /\ Tail(old) \in Seq(ByteOrNone)
      /\ Len(Tail(old)) = n - 1
      /\ \A i \in 1 .. n - 1 : Tail(old)[i] = old[i + 1]
  BY <1>5, HeadTailProperties
<1>10. ASSUME NEW i \in 1 .. n - 1  PROVE  new[i] = Tail(old)[i]
  <2>1. i + 1 \in 1 .. n
    BY <1>2
  <2> QED
    BY <2>1, <1>4, <1>7, <1>8, <1>9
<1>11. new = Tail(old)
  BY <1>6, <1>9, <1>10, SeqEqual
<1>12. Head(old) = r[t]
  <2>1. Head(old) = old[1]
    BY <1>5
  <2> QED
    BY <2>1, <1>2, <1>3, <1>7
<1> QED
  BY <1>5, <1>11, <1>12 DEF old, new

(***************************************************************************)
(* The inductive invariant.  getchar holds a slot from its check to its    *)
(* return, and the USB core holds usb_send_buffer while send_poll waits.   *)
(***************************************************************************)
GetSound ==
  /\ getPc # "check" => tail # head /\ sendPc \in {"first", "more"}
  /\ getPc = "return" => c = ring[tail]

SendSound ==
  /\ sendPc # "wait" => inXfer = Idle
  /\ sendPc = "submit" => ~sent
  /\ sendPc = "wait" /\ sent => inXfer = Idle
  /\ sendPc \in {"more", "clear", "submit"} => sendBuf # <<>>

IInv == TypeOK /\ GetSound /\ SendSound

LEMMA InitInvariant == Init => IInv
<1> SUFFICES ASSUME Init PROVE IInv
  OBVIOUS
<1> USE DEF Init, SerialInit, UsbInit
<1>1. SerialTypeOK
  BY RingSizeAssumption DEF SerialTypeOK, NoByte
<1>2. UsbTypeOK
  <2>1. <<>> \in Seq(Nat) /\ <<>> \in Seq(Nat \cup {NoByte})
    BY EmptySeq
  <2> QED
    BY <1>1, <2>1 DEF UsbTypeOK
<1>3. TypeOK
  BY <1>2 DEF TypeOK
<1> QED
  BY <1>3 DEF IInv, GetSound, SendSound

\* An index moved on is an index.
LEMMA AdvanceType ==
  ASSUME NEW i \in 0 .. RingSize - 1
  PROVE  Advance(i) \in 0 .. RingSize - 1
BY RingSizeAssumption DEF Advance

\* The receive half touches the transmit register, and nothing of the ring
\* or of the send half.
LEMMA RecvStep ==
  ASSUME IInv, LoopRecv
  PROVE  /\ IInv'
         /\ UNCHANGED <<ringVars, getVars, sendVars, printed, hostGot>>
<1> USE DEF IInv, TypeOK, UsbTypeOK, SerialTypeOK
<1>1. UNCHANGED <<ringVars, getVars, sendVars, printed, hostGot>>
  BY DEF LoopRecv, Recv, RecvConfigured, RecvClear, RecvArm, RecvWait, RecvPut,
         RecvAgain, Putchar, serialVars, usbVars, endVars
<1>2. GetSound' /\ SendSound'
  BY <1>1 DEF GetSound, SendSound, ringVars, getVars, sendVars
<1>3. TypeOK'
  <2>1. CASE Recv /\ UNCHANGED turn
    <3>1. UNCHANGED <<endVars, turn, configured, recvBuf>>
      BY <2>1 DEF LoopRecv, Recv, RecvConfigured, RecvClear, RecvArm, RecvWait,
                  RecvPut, RecvAgain
    <3>2. /\ txReg' \in Nat \cup {NoByte}
          /\ recvPc' \in {"config", "clear", "arm", "wait", "put"}
          /\ received' \in BOOLEAN /\ outArmed' \in BOOLEAN /\ recvIdx' \in Nat
      <4>1. CASE RecvPut
        <5>1. recvBuf[recvIdx + 1] \in Nat
          BY <4>1 DEF RecvPut
        <5> QED
          BY <4>1, <5>1 DEF RecvPut, Putchar
      <4>2. CASE RecvConfigured
        BY <4>2 DEF RecvConfigured, serialVars
      <4>3. CASE RecvClear
        BY <4>3 DEF RecvClear, serialVars
      <4>4. CASE RecvArm
        BY <4>4 DEF RecvArm, serialVars
      <4>5. CASE RecvWait
        BY <4>5 DEF RecvWait, serialVars
      <4>6. CASE RecvAgain
        BY <4>6 DEF RecvAgain, serialVars
      <4> QED
        BY <2>1, <4>1, <4>2, <4>3, <4>4, <4>5, <4>6 DEF Recv
    <3> QED
      BY <1>1, <2>1, <3>1, <3>2 DEF LoopRecv, ringVars, getVars, sendVars, endVars
  <2>2. CASE turn' = "send" /\ UNCHANGED <<serialVars, usbVars, endVars>>
    BY <2>2 DEF serialVars, ringVars, getVars, usbVars, recvVars, sendVars, endVars
  <2> QED
    BY <2>1, <2>2 DEF LoopRecv
<1> QED
  BY <1>1, <1>2, <1>3

LEMMA AppendType ==
  ASSUME NEW S, NEW s \in Seq(S), NEW e \in S
  PROVE  Append(s, e) \in Seq(S) /\ Append(s, e) # <<>>
<1>1. Append(s, e) \in Seq(S) /\ Len(Append(s, e)) = Len(s) + 1 /\ Len(s) \in Nat
  BY AppendProperties, LenProperties
<1>2. Len(Append(s, e)) # 0
  BY <1>1
<1> QED
  BY <1>1, <1>2, EmptySeq

\* The send half is the only one to read the ring.
LEMMA SendStep ==
  ASSUME IInv, LoopSend
  PROVE  IInv'
<1> USE DEF IInv, TypeOK, UsbTypeOK, SerialTypeOK, GetSound, SendSound
<1> USE DEF ringVars, getVars, serialVars, recvVars, sendVars, usbVars, endVars
<1>1. CASE SendConfigured /\ UNCHANGED <<turn, endVars, configured, recvVars>>
  BY <1>1 DEF SendConfigured
<1>2. CASE SendGet /\ UNCHANGED <<turn, endVars, configured, recvVars>>
  <2>1. CASE GetCheck
    BY <1>2, <2>1 DEF SendGet, GetCheck
  <2>2. CASE GetRead
    <3>1. /\ getPc = "read" /\ getPc' = "return" /\ c' = ring[tail]
          /\ UNCHANGED <<ringVars, txReg, sendVars, turn, endVars, configured, recvVars>>
      BY <1>2, <2>2 DEF SendGet, GetRead
    <3>2. c' \in Nat \cup {NoByte}
      BY <3>1
    <3>3. TypeOK'
      BY <3>1, <3>2
    <3> QED
      BY <3>1, <3>3
  <2> QED
    BY <1>2, <2>1, <2>2 DEF SendGet
<1>3. CASE SendStore /\ UNCHANGED <<turn, endVars, configured, recvVars>>
  <2>1. sendBuf' = <<c>> \/ sendBuf' = Append(sendBuf, c)
    BY <1>3 DEF SendStore
  <2>2. <<c>> \in Seq(Nat \cup {NoByte}) /\ <<c>> # <<>>
    OBVIOUS
  <2>3. Append(sendBuf, c) \in Seq(Nat \cup {NoByte}) /\ Append(sendBuf, c) # <<>>
    BY AppendType
  <2>4. sendBuf' \in Seq(Nat \cup {NoByte}) /\ sendBuf' # <<>>
    BY <2>1, <2>2, <2>3
  <2>5. tail' \in 0 .. RingSize - 1
    BY <1>3, AdvanceType DEF SendStore, GetReturn
  <2>6. sendPc' \in {"clear", "more"} /\ getPc' = "check"
    BY <1>3 DEF SendStore, GetReturn
  <2> QED
    BY <1>3, <2>4, <2>5, <2>6 DEF SendStore, GetReturn
<1>4. CASE SendEnough /\ UNCHANGED <<turn, endVars, configured, recvVars>>
  BY <1>4 DEF SendEnough, GetEmpty
<1>5. CASE SendClear /\ UNCHANGED <<turn, endVars, configured, recvVars>>
  BY <1>5 DEF SendClear
<1>6. CASE SendSubmit /\ UNCHANGED <<turn, endVars, configured, recvVars>>
  BY <1>6 DEF SendSubmit
<1>7. CASE SendWait /\ UNCHANGED <<turn, endVars, configured, recvVars>>
  BY <1>7 DEF SendWait
<1>8. CASE turn' = "recv" /\ UNCHANGED <<serialVars, usbVars, endVars>>
  BY <1>8
<1> QED
  BY <1>1, <1>2, <1>3, <1>4, <1>5, <1>6, <1>7, <1>8 DEF LoopSend, Send

\* What the two ends of the bridge and the interrupt handlers do.
LEMMA EndStep ==
  ASSUME IInv, \/ TargetPrints \/ TargetReceives \/ HostWrites
               \/ HostOut \/ HostIn \/ HostConfigures
  PROVE  IInv'
<1> USE DEF IInv, TypeOK, UsbTypeOK, SerialTypeOK, GetSound, SendSound
<1> USE DEF ringVars, getVars, serialVars, recvVars, sendVars, usbVars, endVars
<1>1. CASE TargetPrints
  <2>1. printed' \in Nat
    BY <1>1 DEF TargetPrints
  <2>2. head' \in 0 .. RingSize - 1
    BY <1>1, AdvanceType DEF TargetPrints, RecvBufPut
  <2>3. ring' \in [0 .. RingSize - 1 -> Nat \cup {NoByte}]
    BY <1>1, <2>1 DEF TargetPrints, RecvBufPut
  <2>4. getPc # "check" => tail # head'
    BY <1>1 DEF TargetPrints, RecvBufPut
  <2>5. getPc # "check" => ring'[tail] = ring[tail]
    BY <1>1 DEF TargetPrints, RecvBufPut
  <2> QED
    BY <1>1, <2>1, <2>2, <2>3, <2>4, <2>5 DEF TargetPrints, RecvBufPut
<1>2. CASE TargetReceives
  <2>1. Append(targetGot, txReg) \in Seq(Nat)
    BY <1>2 DEF TargetReceives, ShiftOut
  <2> QED
    BY <1>2, <2>1 DEF TargetReceives, ShiftOut
<1>3. CASE HostWrites
  BY <1>3 DEF HostWrites
<1>4. CASE HostOut
  <2>1. PICK n \in 1 .. BufferSize :
          /\ DataOut([i \in 1 .. n |-> fetched + i])
          /\ fetched' = fetched + n
    BY <1>4 DEF HostOut
  <2>2. n \in Nat
    BY BufferSizeAssumption
  <2>3. [i \in 1 .. n |-> fetched + i] \in Seq(Nat)
    BY <2>2
  <2>4. recvBuf' \in Seq(Nat) /\ fetched' \in Nat
    BY <2>1, <2>2, <2>3 DEF DataOut
  <2>5. /\ received' = TRUE /\ outArmed' = FALSE
        /\ UNCHANGED <<serialVars, configured, recvPc, recvIdx, sendVars>>
    BY <2>1 DEF DataOut
  <2>6. UNCHANGED <<turn, printed, written, hostGot, targetGot>>
    BY <1>4 DEF HostOut
  <2>7. TypeOK'
    <3>1. SerialTypeOK'
      BY <2>5
    <3>2. UsbTypeOK'
      BY <2>4, <2>5, <3>1
    <3> QED
      BY <2>4, <2>6, <3>2
  <2>8. GetSound' /\ SendSound'
    BY <2>5
  <2> QED
    BY <2>7, <2>8
<1>5. CASE HostIn
  <2>1. hostGot \o sendBuf \in Seq(Nat \cup {NoByte})
    OBVIOUS
  <2>2. hostGot' \in Seq(Nat \cup {NoByte})
    BY <1>5, <2>1 DEF HostIn
  <2>3. inXfer' \in {0, Idle} /\ sent' \in BOOLEAN
    BY <1>5 DEF HostIn, DataIn
  <2>4. inXfer' = Idle \/ UNCHANGED sent
    BY <1>5 DEF HostIn, DataIn
  <2>5. /\ UNCHANGED <<serialVars, configured, recvVars, sendPc, sendBuf>>
        /\ UNCHANGED <<turn, printed, written, fetched, targetGot>>
        /\ inXfer # Idle
    BY <1>5 DEF HostIn, DataIn
  <2>6. TypeOK'
    BY <2>2, <2>3, <2>5
  <2>7. GetSound'
    BY <2>5
  <2>8. SendSound'
    BY <2>4, <2>5
  <2> QED
    BY <2>6, <2>7, <2>8
<1>6. CASE HostConfigures
  BY <1>6 DEF HostConfigures, Configure
<1> QED
  BY <1>1, <1>2, <1>3, <1>4, <1>5, <1>6

LEMMA NextInvariant == IInv /\ [Next]_vars => IInv'
<1> SUFFICES ASSUME IInv, [Next]_vars PROVE IInv'
  OBVIOUS
<1>1. CASE LoopRecv
  BY <1>1, RecvStep
<1>2. CASE LoopSend
  BY <1>2, SendStep
<1>3. CASE TargetPrints \/ TargetReceives \/ HostWrites
           \/ HostOut \/ HostIn \/ HostConfigures
  BY <1>3, EndStep
<1>4. CASE UNCHANGED vars
  BY <1>4 DEF vars, IInv, TypeOK, UsbTypeOK, SerialTypeOK, GetSound, SendSound,
         serialVars, ringVars, getVars, usbVars, recvVars, sendVars, endVars
<1> QED
  BY <1>1, <1>2, <1>3, <1>4 DEF Next, MainLoop

THEOREM Invariant == Spec => []IInv
BY InitInvariant, NextInvariant, PTL DEF Spec

\* The ring indices stay in the ring, and every variable has its type.
THEOREM BridgeTypeCorrect == Spec => []TypeOK
<1>1. IInv => TypeOK
  BY DEF IInv
<1> QED
  BY <1>1, Invariant, PTL

(***************************************************************************)
(* The bridge implements UartChannel.                                      *)
(***************************************************************************)
LEMMA ContentsType ==
  ASSUME IInv
  PROVE  /\ Contents \in Seq(ByteOrNone)
         /\ Len(Contents) = Count(head, tail)
<1>1. ring \in [Indices -> ByteOrNone] /\ head \in Indices /\ tail \in Indices
  BY DEF IInv, TypeOK, UsbTypeOK, SerialTypeOK, Indices, ByteOrNone
<1> QED
  BY <1>1, BetweenType DEF Contents

\* A byte of the target is a step of the abstract channel: appended, or
\* dropped when the ring is full.
LEMMA PrintOffers ==
  ASSUME IInv, TargetPrints
  PROVE  Channel!Offer
<1>1. /\ ring \in [Indices -> ByteOrNone] /\ head \in Indices /\ tail \in Indices
      /\ printed \in Nat
  BY DEF IInv, TypeOK, UsbTypeOK, SerialTypeOK, Indices, ByteOrNone
<1>2. /\ printed' = printed + 1 /\ printed' \in ByteOrNone
      /\ UNCHANGED <<hostGot, sendPc, inXfer, sendBuf, tail>>
  BY <1>1 DEF TargetPrints, RecvBufPut, usbVars, sendVars, ByteOrNone
<1>3. UNCHANGED (hostGot \o Pending)
  BY <1>2 DEF Pending
<1>4. CASE tail = Advance(head)
  <2>1. Len(Contents) = RingSize - 1
    BY <1>1, <1>4, FullRing, ContentsType
  <2>2. ~(Len(Contents) < RingSize - 1)
    BY <2>1, RingSizeAssumption
  <2>3. Contents' = Contents
    BY <1>4, <1>2 DEF TargetPrints, RecvBufPut, Contents
  <2> QED
    BY <1>2, <1>3, <2>2, <2>3 DEF Channel!Offer
<1>5. CASE tail # Advance(head)
  <2>1. ring' = [ring EXCEPT ![head] = printed'] /\ head' = Advance(head)
    BY <1>5 DEF TargetPrints, RecvBufPut
  <2>2. Between(ring', head', tail) = Append(Contents, printed')
    BY <1>1, <1>2, <1>5, <2>1, PutAppends DEF Contents
  <2>3. Contents' = Append(Contents, printed')
    BY <1>2, <2>2 DEF Contents
  <2>4. Len(Contents) < RingSize - 1
    BY <1>1, <1>2, <1>5, PutAppends, ContentsType
  <2> QED
    BY <1>2, <1>3, <2>3, <2>4 DEF Channel!Offer
<1> QED
  BY <1>4, <1>5

\* The end of getchar, with the byte stored in the batch, takes the oldest byte.
LEMMA StoreTakes ==
  ASSUME IInv, SendStore, UNCHANGED endVars
  PROVE  Channel!Take
<1>1. /\ ring \in [Indices -> ByteOrNone] /\ head \in Indices /\ tail \in Indices
      /\ c \in ByteOrNone /\ sendBuf \in Seq(ByteOrNone)
      /\ hostGot \in Seq(ByteOrNone)
  BY DEF IInv, TypeOK, UsbTypeOK, SerialTypeOK, Indices, ByteOrNone
<1>2. tail # head /\ c = ring[tail]
  BY DEF IInv, GetSound, SendStore, GetReturn
<1>3. /\ ring' = ring /\ head' = head /\ tail' = Advance(tail)
      /\ UNCHANGED <<hostGot, printed>>
  BY DEF SendStore, GetReturn, endVars
<1>4. Contents # <<>> /\ Head(Contents) = c /\ Contents' = Tail(Contents)
  BY <1>1, <1>2, <1>3, AdvanceTakes DEF Contents
<1>5. sendPc \in {"first", "more"} /\ Pending' = sendBuf'
  BY DEF SendStore, Pending
<1>6. hostGot \o sendBuf' = Append(hostGot \o Pending, c)
  <2>1. CASE sendPc = "first"
    <3>1. sendBuf' = <<c>> /\ Pending = <<>>
      BY <2>1 DEF SendStore, Pending
    <3>2. hostGot \o <<>> = hostGot
      BY <1>1, ConcatEmptySeq
    <3>3. hostGot \o <<c>> = Append(hostGot, c)
      BY <1>1, AppendIsConcat
    <3> QED
      BY <3>1, <3>2, <3>3
  <2>2. CASE sendPc = "more"
    <3>1. sendBuf' = Append(sendBuf, c) /\ Pending = sendBuf
      BY <2>2 DEF SendStore, Pending
    <3>2. /\ Append(sendBuf, c) = sendBuf \o <<c>>
          /\ Append(hostGot \o sendBuf, c) = (hostGot \o sendBuf) \o <<c>>
      <4>1. hostGot \o sendBuf \in Seq(ByteOrNone)
        BY <1>1, ConcatProperties
      <4> QED
        BY <1>1, <4>1, AppendIsConcat
    <3>3. <<c>> \in Seq(ByteOrNone)
      BY <1>1
    <3>4. (hostGot \o sendBuf) \o <<c>> = hostGot \o (sendBuf \o <<c>>)
      BY <1>1, <3>3, ConcatAssociative
    <3> QED
      BY <3>1, <3>2, <3>4
  <2> QED
    BY <1>5, <2>1, <2>2
<1> QED
  BY <1>3, <1>4, <1>5, <1>6 DEF Channel!Take

\* Every other step leaves the channel as it is.
LEMMA OtherStutters ==
  ASSUME UNCHANGED <<ringVars, printed>>, UNCHANGED (hostGot \o Pending)
  PROVE  UNCHANGED <<printed, Contents, hostGot \o Pending>>
BY DEF ringVars, Contents

LEMMA ChannelStep ==
  IInv /\ [Next]_vars => [Channel!Next]_<<printed, Contents, hostGot \o Pending>>
<1> SUFFICES ASSUME IInv, [Next]_vars
             PROVE  \/ Channel!Next
                    \/ UNCHANGED <<printed, Contents, hostGot \o Pending>>
  OBVIOUS
<1>1. CASE LoopRecv
  <2>1. UNCHANGED <<ringVars, printed, hostGot, sendPc, sendBuf, inXfer>>
    BY <1>1, RecvStep DEF sendVars
  <2> QED
    BY <2>1, OtherStutters DEF Pending
<1>2. CASE LoopSend
  <2>1. CASE SendStore /\ UNCHANGED endVars
    BY <2>1, StoreTakes DEF Channel!Next
  <2>2. CASE Send /\ ~SendStore /\ UNCHANGED endVars
    <3>1. UNCHANGED <<ringVars, printed, hostGot>>
      BY <2>2 DEF Send, SendConfigured, SendGet, GetCheck, GetRead, SendEnough,
                  SendClear, SendSubmit, SendWait, serialVars, endVars
    <3>2. Len(sendBuf) \in Nat /\ (sendBuf # <<>> => Len(sendBuf) > 0)
      BY EmptySeq, LenProperties DEF IInv, TypeOK, UsbTypeOK
    <3>3. Pending' = Pending
      BY <2>2, <3>2 DEF Send, SendConfigured, SendGet, SendEnough, SendClear,
                  SendSubmit, SendWait, Pending, IInv, SendSound, Idle
    <3> QED
      BY <3>1, <3>3, OtherStutters
  <2>3. CASE UNCHANGED <<serialVars, usbVars, endVars>>
    BY <2>3, OtherStutters DEF Pending, serialVars, usbVars, sendVars, endVars
  <2> QED
    BY <1>2, <2>1, <2>2, <2>3 DEF LoopSend
<1>3. CASE TargetPrints
  BY <1>3, PrintOffers DEF Channel!Next
<1>4. CASE HostIn
  <2>1. UNCHANGED <<ringVars, printed, sendPc, sendBuf>>
    BY <1>4 DEF HostIn, DataIn, serialVars
  <2>2. sendPc = "wait" /\ (inXfer = 0 \/ inXfer > 0)
    BY <1>4 DEF HostIn, DataIn, IInv, SendSound, TypeOK, UsbTypeOK
  <2>3. inXfer' \in {0, Idle}
    BY <1>4 DEF HostIn, DataIn
  <2>4. Pending' = <<>>
    BY <2>1, <2>2, <2>3 DEF Pending, Idle
  <2>5. hostGot' = hostGot \o Pending
    <3>1. hostGot \o <<>> = hostGot
      BY ConcatEmptySeq DEF IInv, TypeOK
    <3>2. CASE inXfer = 0
      <4>1. Pending = <<>> /\ hostGot' = hostGot
        BY <1>4, <2>2, <3>2 DEF HostIn, Pending
      <4> QED
        BY <3>1, <4>1
    <3>3. CASE inXfer > 0
      <4>1. inXfer # 0
        BY <3>3
      <4>2. Pending = sendBuf
        BY <2>2, <3>3 DEF Pending
      <4> QED
        BY <1>4, <4>1, <4>2 DEF HostIn
    <3> QED
      BY <2>2, <3>2, <3>3
  <2>6. hostGot' \o <<>> = hostGot'
    <3>1. hostGot' \in Seq(Nat \cup {NoByte})
      BY <1>4, EndStep DEF IInv, TypeOK
    <3> QED
      BY <3>1, ConcatEmptySeq
  <2>7. UNCHANGED (hostGot \o Pending)
    BY <2>4, <2>5, <2>6
  <2> QED
    BY <2>1, <2>7, OtherStutters
<1>5. CASE TargetReceives \/ HostWrites \/ HostOut \/ HostConfigures \/ UNCHANGED vars
  <2>1. UNCHANGED <<ringVars, printed, hostGot, sendPc, sendBuf, inXfer>>
    BY <1>5 DEF TargetReceives, ShiftOut, HostWrites, HostOut, DataOut,
                HostConfigures, Configure, vars, serialVars, usbVars, sendVars, endVars
  <2> QED
    BY <2>1, OtherStutters DEF Pending
<1> QED
  BY <1>1, <1>2, <1>3, <1>4, <1>5 DEF Next, MainLoop

LEMMA ChannelInit == Init => Channel!Init
<1> SUFFICES ASSUME Init PROVE Channel!Init
  OBVIOUS
<1>1. IInv
  BY InitInvariant
<1>2. tail = head /\ hostGot = <<>> /\ sendPc = "config" /\ printed = 0
  BY DEF Init, SerialInit, UsbInit
<1>3. Contents = <<>>
  BY <1>1, <1>2, BetweenType DEF IInv, TypeOK, UsbTypeOK, SerialTypeOK, Contents,
     Indices, ByteOrNone
<1>4. hostGot \o Pending = <<>>
  <2>1. <<>> \o <<>> = <<>>
    BY EmptySeq, ConcatEmptySeq
  <2> QED
    BY <1>2, <2>1 DEF Pending
<1> QED
  BY <1>2, <1>3, <1>4 DEF Channel!Init

\* For every size of the ring and of a batch, what the target prints reaches
\* the host in order and once, and is dropped only when the ring is full:
\* rvl_serial_getchar and the interrupt handler need no lock.
THEOREM BridgeImplementsChannel == Spec => ChannelSpec
BY Invariant, ChannelInit, ChannelStep, PTL DEF Spec, ChannelSpec, Channel!Spec

(***************************************************************************)
(* The other direction.  The host's packet n .. fetched lies in recvBuf    *)
(* from its arrival until recv_poll has put its last byte.                 *)
(***************************************************************************)
\* A packet has arrived that recv_poll has not passed on whole.
Holding == recvPc = "put" \/ (recvPc = "wait" /\ received)

\* How many of the fetched bytes recv_poll has passed on.
Passed ==
  IF recvPc = "put" THEN fetched - (Len(recvBuf) - recvIdx)
  ELSE IF Holding THEN fetched - Len(recvBuf) ELSE fetched

\* The endpoint is armed only while recv_poll waits with its flag down, so that
\* a packet never lands on one that is still being put.
ArmedSound ==
  /\ outArmed => recvPc = "wait" /\ ~received
  /\ received => recvPc \in {"clear", "wait", "put"}

HeldSound ==
  /\ recvPc = "put" => recvIdx <= Len(recvBuf)
  /\ Holding => \A j \in 1 .. Len(recvBuf) :
                  recvBuf[j] = fetched - Len(recvBuf) + j

SentSound ==
  /\ \A i \in 1 .. Len(targetGot) : targetGot[i] = i
  /\ Len(targetGot) = IF txReg = NoByte THEN Passed ELSE Passed - 1
  /\ txReg # NoByte => txReg = Passed

HostInv == ArmedSound /\ HeldSound /\ SentSound

LEMMA HostInit == Init => HostInv
BY EmptySeq, LenProperties DEF Init, SerialInit, UsbInit, HostInv, ArmedSound,
   HeldSound, SentSound, Holding, Passed, NoByte

LEMMA HostRecvStep ==
  ASSUME IInv, HostInv, Recv, UNCHANGED endVars
  PROVE  HostInv'
<1> USE DEF HostInv, ArmedSound, HeldSound, SentSound, Holding, Passed
<1> USE DEF serialVars, ringVars, getVars, endVars
<1>1. Len(recvBuf) \in Nat /\ recvIdx \in Nat /\ fetched \in Nat
  BY LenProperties DEF IInv, TypeOK, UsbTypeOK
<1>2. CASE RecvConfigured
  BY <1>2, <1>1 DEF RecvConfigured
<1>3. CASE RecvClear
  BY <1>3, <1>1 DEF RecvClear
<1>4. CASE RecvArm
  BY <1>4, <1>1 DEF RecvArm
<1>5. CASE RecvWait
  BY <1>5, <1>1 DEF RecvWait
<1>6. CASE RecvPut
  <2>1. recvBuf[recvIdx + 1] = Passed + 1 /\ Passed \in Int
    <3>1. recvIdx + 1 \in 1 .. Len(recvBuf)
      BY <1>6, <1>1 DEF RecvPut
    <3>2. recvBuf[recvIdx + 1] = fetched - Len(recvBuf) + (recvIdx + 1)
      BY <1>6, <3>1 DEF RecvPut
    <3> QED
      BY <1>6, <1>1, <3>2 DEF RecvPut
  <2>2. /\ Passed' = Passed + 1
        /\ txReg = NoByte /\ txReg' = Passed'
    BY <1>6, <1>1, <2>1 DEF RecvPut, Putchar
  <2>3. Len(targetGot) = Passed' - 1 /\ Len(targetGot) \in Nat
    <3>1. targetGot \in Seq(Nat) /\ Len(targetGot) = Passed
      BY <2>2 DEF IInv, TypeOK
    <3> QED
      BY <2>1, <2>2, <3>1, LenProperties
  <2>4. txReg' # NoByte
    BY <2>2, <2>3 DEF NoByte
  <2>5. SentSound'
    BY <1>6, <2>2, <2>3, <2>4
  <2>6. ArmedSound'
    BY <1>6 DEF RecvPut
  <2>7. HeldSound'
    BY <1>6, <1>1 DEF RecvPut
  <2> QED
    BY <2>5, <2>6, <2>7
<1>7. CASE RecvAgain
  BY <1>7, <1>1 DEF RecvAgain
<1> QED
  BY <1>2, <1>3, <1>4, <1>5, <1>6, <1>7 DEF Recv

LEMMA HostReceiveStep ==
  ASSUME IInv, HostInv, TargetReceives
  PROVE  HostInv'
<1> DEFINE n == Len(targetGot)
<1>1. /\ txReg # NoByte /\ txReg' = NoByte
      /\ targetGot' = Append(targetGot, txReg)
      /\ UNCHANGED <<recvPc, received, recvBuf, recvIdx, outArmed, fetched>>
  BY DEF TargetReceives, ShiftOut, usbVars, recvVars
<1>2. targetGot \in Seq(Nat) /\ txReg \in Nat /\ n \in Nat
  BY <1>1, LenProperties DEF IInv, TypeOK, UsbTypeOK, SerialTypeOK
<1>3. /\ Len(targetGot') = n + 1
      /\ \A i \in 1 .. n : targetGot'[i] = targetGot[i]
      /\ targetGot'[n + 1] = txReg
  BY <1>1, <1>2, AppendProperties
<1>4. Passed' = Passed /\ n = Passed - 1 /\ txReg = Passed
  BY <1>1 DEF HostInv, SentSound, Passed, Holding
<1>5. Passed = n + 1
  BY <1>2, <1>4
<1>6. \A i \in 1 .. n + 1 : targetGot'[i] = i
  BY <1>2, <1>3, <1>4, <1>5 DEF HostInv, SentSound
<1>7. SentSound'
  BY <1>1, <1>3, <1>4, <1>5, <1>6 DEF SentSound
<1>8. ArmedSound' /\ HeldSound'
  BY <1>1 DEF HostInv, ArmedSound, HeldSound, Holding
<1> QED
  BY <1>7, <1>8 DEF HostInv

LEMMA HostOutStep ==
  ASSUME IInv, HostInv, HostOut
  PROVE  HostInv'
<1>1. PICK n \in 1 .. BufferSize :
        /\ DataOut([i \in 1 .. n |-> fetched + i])
        /\ fetched' = fetched + n
  BY DEF HostOut
<1>2. n \in Nat /\ fetched \in Nat
  BY BufferSizeAssumption DEF IInv, TypeOK
<1>3. /\ outArmed /\ outArmed' = FALSE /\ received' = TRUE
      /\ recvBuf' = [i \in 1 .. n |-> fetched + i]
      /\ UNCHANGED <<txReg, recvPc, recvIdx, targetGot>>
  BY <1>1 DEF DataOut, HostOut, serialVars
<1>4. recvPc = "wait" /\ ~received
  BY <1>3 DEF HostInv, ArmedSound
<1>5. Len(recvBuf') = n /\ \A j \in 1 .. n : recvBuf'[j] = fetched + j
  BY <1>2, <1>3
<1>6. Passed = fetched /\ Passed' = fetched
  BY <1>1, <1>2, <1>3, <1>4, <1>5 DEF Passed, Holding
<1>7. SentSound'
  BY <1>3, <1>6 DEF HostInv, SentSound
<1>8. HeldSound'
  BY <1>1, <1>2, <1>3, <1>4, <1>5 DEF HeldSound
<1>9. ArmedSound'
  BY <1>3, <1>4 DEF ArmedSound
<1> QED
  BY <1>7, <1>8, <1>9 DEF HostInv

LEMMA HostStep == IInv /\ HostInv /\ [Next]_vars => HostInv'
<1> SUFFICES ASSUME IInv, HostInv, [Next]_vars PROVE HostInv'
  OBVIOUS
<1> DEFINE mine == <<txReg, recvVars, fetched, targetGot>>
<1>1. CASE UNCHANGED mine
  BY <1>1 DEF mine, recvVars, HostInv, ArmedSound, HeldSound, SentSound, Holding,
              Passed
<1>2. CASE Recv /\ UNCHANGED endVars
  BY <1>2, HostRecvStep
<1>3. CASE LoopRecv
  <2>1. \/ Recv /\ UNCHANGED endVars
        \/ UNCHANGED <<serialVars, usbVars, endVars>>
    BY <1>3 DEF LoopRecv
  <2> QED
    BY <2>1, <1>1, <1>2 DEF mine, serialVars, usbVars, endVars
<1>4. CASE LoopSend
  BY <1>1, <1>4 DEF mine, LoopSend, Send, SendConfigured, SendGet, GetCheck, GetRead,
     SendStore, GetReturn, SendEnough, SendClear, SendSubmit, SendWait, serialVars,
     usbVars, endVars
<1>5. CASE TargetPrints
  BY <1>1, <1>5 DEF mine, TargetPrints, RecvBufPut, usbVars
<1>6. CASE TargetReceives
  BY <1>6, HostReceiveStep
<1>7. CASE HostWrites
  BY <1>1, <1>7 DEF mine, HostWrites, serialVars, usbVars
<1>8. CASE HostOut
  BY <1>8, HostOutStep
<1>9. CASE HostIn
  BY <1>1, <1>9 DEF mine, HostIn, DataIn, serialVars
<1>10. CASE HostConfigures
  BY <1>1, <1>10 DEF mine, HostConfigures, Configure, serialVars, endVars
<1>11. CASE UNCHANGED vars
  BY <1>1, <1>11 DEF mine, vars, serialVars, usbVars, endVars
<1> QED
  BY <1>3, <1>4, <1>5, <1>6, <1>7, <1>8, <1>9, <1>10, <1>11 DEF Next, MainLoop

\* The invariant says it of every index; as one sequence it is HostBytesInOrder.
LEMMA HostOrder == IInv /\ HostInv => HostBytesInOrder
<1> SUFFICES ASSUME IInv, HostInv PROVE HostBytesInOrder
  OBVIOUS
<1> DEFINE waiting == IF received /\ recvPc \in {"arm", "wait"} THEN recvBuf
                      ELSE IF recvPc = "put"
                        THEN SubSeq(recvBuf, recvIdx + 1, Len(recvBuf))
                      ELSE <<>>
           register == IF txReg = NoByte THEN <<>> ELSE <<txReg>>
           whole == [i \in 1 .. fetched |-> i]
           n == Len(targetGot)
           k == Len(recvBuf)
<1>1. /\ targetGot \in Seq(Nat) /\ n \in Nat
      /\ recvBuf \in Seq(Nat) /\ k \in Nat /\ recvIdx \in Nat
      /\ fetched \in Nat /\ txReg \in Nat \cup {NoByte}
  BY LenProperties DEF IInv, TypeOK, UsbTypeOK, SerialTypeOK
<1>2. /\ register \in Seq(Nat)
      /\ Len(register) = IF txReg = NoByte THEN 0 ELSE 1
      /\ txReg # NoByte => register[1] = Passed
  <2>1. CASE txReg = NoByte
    BY <2>1, EmptySeq
  <2>2. CASE txReg # NoByte
    BY <1>1, <2>2 DEF HostInv, SentSound
  <2> QED
    BY <2>1, <2>2
<1>3. /\ waiting \in Seq(Nat)
      /\ Len(waiting) = fetched - Passed
      /\ \A j \in 1 .. Len(waiting) : waiting[j] = Passed + j
  <2>1. CASE recvPc = "wait" /\ received
    BY <1>1, <2>1 DEF HostInv, HeldSound, Holding, Passed
  <2>2. CASE recvPc = "put"
    <3>1. waiting = SubSeq(recvBuf, recvIdx + 1, k) /\ recvIdx <= k
      BY <2>2 DEF HostInv, HeldSound
    <3>2. /\ waiting \in Seq(Nat) /\ Len(waiting) = k - recvIdx
          /\ \A j \in 1 .. k - recvIdx : waiting[j] = recvBuf[recvIdx + j]
      <4> DEFINE part == SubSeq(recvBuf, recvIdx + 1, k)
      <4>1. recvIdx + 1 \in Int /\ k \in Int
        BY <1>1
      <4>2. \A i \in recvIdx + 1 .. k : recvBuf[i] \in Nat
        BY <1>1
      <4> HIDE DEF waiting, k
      <4>3. /\ part \in Seq(Nat)
            /\ Len(part) = IF recvIdx + 1 <= k THEN k - (recvIdx + 1) + 1 ELSE 0
            /\ \A i \in 1 .. k - (recvIdx + 1) + 1 :
                 part[i] = recvBuf[recvIdx + 1 + i - 1]
        BY <4>1, <4>2, SubSeqProperties
      <4> HIDE DEF part
      <4>4. waiting = part
        BY <3>1 DEF part
      <4>5. k - (recvIdx + 1) + 1 = k - recvIdx
        BY <1>1
      <4>6. ASSUME NEW j \in 1 .. k - recvIdx PROVE part[j] = recvBuf[recvIdx + j]
        <5>1. recvIdx + 1 + j - 1 = recvIdx + j
          BY <1>1
        <5> QED
          BY <4>3, <4>5, <5>1
      <4>7. Len(part) = k - recvIdx
        <5>1. recvIdx \in Nat /\ k \in Nat /\ recvIdx <= k
          BY <1>1, <3>1
        <5> QED
          BY <4>3, <5>1
      <4> QED
        BY <4>3, <4>4, <4>6, <4>7
    <3>3. \A j \in 1 .. k : recvBuf[j] = fetched - k + j
      BY <2>2 DEF HostInv, HeldSound, Holding
    <3>4. Passed = fetched - (k - recvIdx)
      BY <2>2 DEF Passed
    <3> HIDE DEF waiting
    <3>5. ASSUME NEW j \in 1 .. k - recvIdx PROVE waiting[j] = Passed + j
      BY <1>1, <3>1, <3>2, <3>3, <3>4
    <3>6. Len(waiting) = fetched - Passed
      BY <1>1, <3>2, <3>4 DEF k
    <3>7. k - recvIdx = Len(waiting)
      BY <3>2
    <3> QED
      BY <3>2, <3>5, <3>6, <3>7
  <2>3. CASE recvPc # "put" /\ ~(recvPc = "wait" /\ received)
    <3>1. waiting = <<>> /\ Passed = fetched
      BY <2>3 DEF HostInv, ArmedSound, Passed, Holding
    <3> HIDE DEF waiting
    <3>2. Len(waiting) = 0 /\ waiting \in Seq(Nat)
      BY <3>1, EmptySeq
    <3>3. fetched - Passed = 0
      BY <1>1, <3>1
    <3> QED
      BY <3>2, <3>3
  <2> QED
    BY <2>1, <2>2, <2>3
<1>4. /\ \A i \in 1 .. n : targetGot[i] = i
      /\ n = IF txReg = NoByte THEN Passed ELSE Passed - 1
  BY DEF HostInv, SentSound
<1>5. Passed \in Int
  BY <1>1 DEF Passed
<1> DEFINE front == targetGot \o register
           all == front \o waiting
<1> HIDE DEF waiting, register, n, k
<1>6. Len(register) \in Nat /\ n + Len(register) = Passed
  BY <1>1, <1>2, <1>4, <1>5, LenProperties
<1>7. /\ front \in Seq(Nat) /\ Len(front) = Passed
      /\ \A i \in 1 .. Passed :
           front[i] = IF i <= n THEN targetGot[i] ELSE register[i - n]
  BY <1>1, <1>2, <1>6, ConcatProperties DEF n
<1>8. \A i \in 1 .. Passed : front[i] = i
  <2>1. ASSUME NEW i \in 1 .. Passed PROVE front[i] = i
    <3>1. CASE i <= n
      BY <1>1, <1>4, <1>7, <3>1
    <3>2. CASE ~(i <= n)
      <4>1. txReg # NoByte /\ i = Passed /\ i - n = 1
        BY <1>1, <1>2, <1>4, <1>5, <3>2
      <4> QED
        BY <1>2, <1>7, <3>2, <4>1
    <3> QED
      BY <3>1, <3>2
  <2> QED
    BY <2>1
<1> HIDE DEF front
<1>9. Len(waiting) \in Nat /\ Passed \in Nat
  BY <1>1, <1>3, <1>6, <1>7, LenProperties
<1>10. /\ all \in Seq(Nat) /\ Len(all) = fetched
       /\ \A i \in 1 .. fetched :
            all[i] = IF i <= Passed THEN front[i] ELSE waiting[i - Passed]
  <2>1. front \in Seq(Nat) /\ waiting \in Seq(Nat)
    BY <1>3, <1>7
  <2>2. Passed + Len(waiting) = fetched
    BY <1>1, <1>3, <1>9
  <2>3. /\ all \in Seq(Nat) /\ Len(all) = Len(front) + Len(waiting)
        /\ \A i \in 1 .. Len(front) + Len(waiting) :
             all[i] = IF i <= Len(front) THEN front[i] ELSE waiting[i - Len(front)]
    BY <2>1, ConcatProperties
  <2> HIDE DEF all
  <2> QED
    BY <1>7, <2>2, <2>3
<1>11. ASSUME NEW i \in 1 .. fetched PROVE all[i] = i
  <2>1. CASE i <= Passed
    <3>1. i \in 1 .. Passed
      BY <1>1, <1>9, <2>1
    <3> HIDE DEF all
    <3> QED
      BY <1>8, <1>10, <2>1, <3>1
  <2>2. CASE ~(i <= Passed)
    <3>1. i - Passed \in 1 .. Len(waiting)
      BY <1>1, <1>3, <1>9, <2>2
    <3>2. waiting[i - Passed] = i
      BY <1>1, <1>3, <1>9, <3>1
    <3> QED
      BY <1>10, <2>2, <3>2
  <2> QED
    BY <2>1, <2>2
<1>12. whole \in Seq(Nat) /\ Len(whole) = fetched /\ \A i \in 1 .. fetched : whole[i] = i
  BY <1>1
<1> HIDE DEF all, whole
<1>13. all = whole
  BY <1>10, <1>11, <1>12, SeqEqual
<1> QED
  BY <1>13 DEF all, front, whole, waiting, register, HostBytesInOrder

\* What the host writes goes to the UART in order, once and whole, for every
\* size of a packet: recv_poll arms the endpoint only when it has put the last
\* byte of the packet before.
THEOREM HostBytesStayInOrder == Spec => []HostBytesInOrder
<1>1. Init => HostInv
  BY HostInit
<1>2. IInv /\ HostInv /\ [Next]_vars => HostInv'
  BY HostStep
<1>3. IInv /\ HostInv => HostBytesInOrder
  BY HostOrder
<1> QED
  BY <1>1, <1>2, <1>3, Invariant, PTL DEF Spec
=============================================================================
