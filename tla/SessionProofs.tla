--------------------------- MODULE SessionProofs ---------------------------
(***************************************************************************)
(* Theorems about GdbLink with a GDB that is neither interrupted nor       *)
(* started again: what it asks is what is executed, and every command is   *)
(* answered once, as RspSession has it.                                    *)
(***************************************************************************)
EXTENDS GdbLinkProofs

Uninterrupted == MaxBreaks = 0 /\ Restarts = 0

(***************************************************************************)
(* The bytes on their way from GDB to the command pipe.                    *)
(***************************************************************************)
\* What command packets leave behind: checksum digits and acknowledgements.
Stale == {"x", "+"}

Junk(p) == \A i \in 1 .. Len(p) : p[i] \in Stale

\* The packet of command k, without its checksum, follows the first m bytes of
\* p, and there is nothing else in p.
Lies(p, k, m) ==
  /\ m + Pad[k] + 3 <= Len(p)
  /\ p[m + 1] = "$" /\ p[m + 2] = k /\ p[m + Pad[k] + 3] = "#"
  /\ \A i \in m + 3 .. m + Pad[k] + 2 : p[i] = "d"
  /\ \A i \in 1 .. Len(p) : i <= m \/ m + Pad[k] + 3 < i => p[i] \in Stale

Whole(p, k) == \E m \in 0 .. Len(p) : Lies(p, k, m)

\* The packet that has arrived and has not been pushed into the pipe.
Held == IF recvPc = "push" \/ (recvPc = "wait" /\ received) THEN recvBuf ELSE <<>>
Coming == Held \o hostOut
Path == command.buffer \o Coming

ArmedSound ==
  /\ outArmed => recvPc = "wait" /\ ~received
  /\ recvPc \in {"config", "arm"} => ~received

(***************************************************************************)
(* The session.                                                            *)
(***************************************************************************)
\* A response is on its way to GDB.
Flying == ~response.busy /\ (sendPc = "wait" => inXfer > 0)

FramedSound == ~response.busy => response.len > 0

OnlyConsole == Flying => response.body = "O"

\* The server has nothing to do but to look for a command.
Quiet ==
  /\ ~command.busy
  /\ serverPc \in {"poll", "cmdWait"}
  /\ ~(gdbConnected /\ targetRunning)

AtRest == hostAsked = None /\ Quiet /\ ~Flying /\ Junk(Path)

OnItsWay == hostAsked # None /\ Quiet /\ ~Flying /\ Whole(Path, hostAsked)

Taken ==
  /\ command.busy /\ command.first = hostAsked
  /\ Content(command) = SubSeq(Packet(hostAsked), 2, Pad[hostAsked] + 2)

Executing ==
  /\ hostAsked # None
  /\ Taken
  /\ ~(gdbConnected /\ targetRunning)
  /\ Junk(Coming)
  /\ \/ serverPc = "resWait" /\ ~Flying
     \/ serverPc = "rcmdOut" /\ hostAsked \in Monitor /\ OnlyConsole
     \/ serverPc = "rcmdText" /\ hostAsked = "show" /\ OnlyConsole
     \/ serverPc = "reset" /\ hostAsked = "reset" /\ ~Flying

Running ==
  /\ hostAsked # None /\ hostAsked \in {"c", "s"}
  /\ ~command.busy
  /\ serverPc \in {"poll", "runSent", "cmdWait"}
  /\ OnlyConsole
  /\ Junk(Path)

Replied ==
  /\ hostAsked # None
  /\ Quiet
  /\ Flying /\ response.body \in Session!Final(hostAsked)
  /\ Junk(Path)

SessionState == AtRest \/ OnItsWay \/ Executing \/ Running \/ Replied

SessionInv == ArmedSound /\ FramedSound /\ SessionState

(***************************************************************************)
(* The acknowledgement mode.                                               *)
(***************************************************************************)
\* The two ends agree on the mode, but while the reply to QStartNoAckMode is
\* on its way and from the end of a session to the reply to qSupported.
AckInv ==
  /\ hostPhase = "none" => hostAck /\ hostAsked \in {None, "qSupported"}
  /\ hostPhase # "none" => hostAsked # "qSupported"
  /\ Flying => response.ack = hostAck
  /\ Flying /\ hostAsked = "QStartNoAckMode" => response.noAck
  /\ (hostPhase # "none" \/ Flying) /\ ~(Flying /\ hostAsked = "QStartNoAckMode")
       => response.noAck = ~hostAck

(***************************************************************************)
(* The bytes.                                                              *)
(***************************************************************************)
LEMMA JunkConcat ==
  ASSUME NEW p \in Seq(Byte), NEW q \in Seq(Byte)
  PROVE  Junk(p \o q) <=> Junk(p) /\ Junk(q)
<1>1. /\ p \o q \in Seq(Byte) /\ Len(p \o q) = Len(p) + Len(q)
      /\ \A i \in 1 .. Len(p) + Len(q) :
           (p \o q)[i] = IF i <= Len(p) THEN p[i] ELSE q[i - Len(p)]
  BY ConcatProperties
<1>2. Len(p) \in Nat /\ Len(q) \in Nat
  OBVIOUS
<1>3. ASSUME Junk(p \o q)  PROVE Junk(p)
  <2>1. ASSUME NEW i \in 1 .. Len(p)  PROVE p[i] \in Stale
    <3>1. i \in 1 .. Len(p \o q) /\ (p \o q)[i] = p[i]
      BY <1>1, <1>2
    <3> QED
      BY <1>3, <3>1 DEF Junk
  <2> QED
    BY <2>1 DEF Junk
<1>4. ASSUME Junk(p \o q)  PROVE Junk(q)
  <2>1. ASSUME NEW i \in 1 .. Len(q)  PROVE q[i] \in Stale
    <3>1. i + Len(p) \in 1 .. Len(p) + Len(q) /\ ~(i + Len(p) <= Len(p))
          /\ (i + Len(p)) - Len(p) = i
      BY <1>2
    <3>2. (p \o q)[i + Len(p)] = q[i] /\ i + Len(p) \in 1 .. Len(p \o q)
      BY <1>1, <3>1
    <3> QED
      BY <1>4, <3>2 DEF Junk
  <2> QED
    BY <2>1 DEF Junk
<1>5. ASSUME Junk(p), Junk(q)  PROVE Junk(p \o q)
  <2>1. ASSUME NEW i \in 1 .. Len(p \o q)  PROVE (p \o q)[i] \in Stale
    <3>1. i \in 1 .. Len(p) + Len(q)
      BY <1>1
    <3>2. CASE i <= Len(p)
      BY <1>1, <1>2, <1>5, <3>1, <3>2 DEF Junk
    <3>3. CASE ~(i <= Len(p))
      <4>1. i - Len(p) \in 1 .. Len(q)
        BY <1>2, <3>1, <3>3
      <4> QED
        BY <1>1, <1>5, <3>1, <3>3, <4>1 DEF Junk
    <3> QED
      BY <3>2, <3>3
  <2> QED
    BY <2>1 DEF Junk
<1> QED
  BY <1>3, <1>4, <1>5

LEMMA JunkAppend ==
  ASSUME NEW p \in Seq(Byte), Junk(p)
  PROVE  Junk(Append(p, "+"))
<1>1. "+" \in Byte
  BY DEF Byte
<1>2. /\ Len(Append(p, "+")) = Len(p) + 1 /\ Append(p, "+")[Len(p) + 1] = "+"
      /\ \A i \in 1 .. Len(p) : Append(p, "+")[i] = p[i]
  BY <1>1, AppendProperties
<1>3. Len(p) \in Nat
  OBVIOUS
<1>4. ASSUME NEW i \in 1 .. Len(p) + 1  PROVE Append(p, "+")[i] \in Stale
  <2>1. CASE i = Len(p) + 1
    BY <1>2, <2>1 DEF Stale
  <2>2. CASE i # Len(p) + 1
    <3>1. i \in 1 .. Len(p)
      BY <1>3, <2>2
    <3> QED
      BY <1>2, <3>1 DEF Junk
  <2> QED
    BY <2>1, <2>2
<1> QED
  BY <1>2, <1>4 DEF Junk

\* The bytes of a packet.
LEMMA PacketBytes ==
  ASSUME NEW k \in Commands
  PROVE  /\ Packet(k) \in Seq(Byte) /\ Pad[k] \in Nat /\ Len(Packet(k)) = Pad[k] + 5
         /\ Packet(k)[1] = "$" /\ Packet(k)[2] = k /\ Packet(k)[Pad[k] + 3] = "#"
         /\ \A i \in 3 .. Pad[k] + 2 : Packet(k)[i] = "d"
         /\ Packet(k)[Pad[k] + 4] = "x" /\ Packet(k)[Pad[k] + 5] = "x"
<1> DEFINE h == <<"$", k>>
           d == [i \in 1 .. Pad[k] |-> "d"]
           t == <<"#", "x", "x">>
<1>1. {"$", "#", "x", "d", k} \subseteq Byte
  BY DEF Byte
<1>2. h \in Seq(Byte) /\ Len(h) = 2 /\ h[1] = "$" /\ h[2] = k
  BY <1>1
<1>3. t \in Seq(Byte) /\ Len(t) = 3 /\ t[1] = "#" /\ t[2] = "x" /\ t[3] = "x"
  BY <1>1
<1>4. Pad[k] \in Nat
  BY LinkAssumption
<1>5. d \in Seq(Byte) /\ Len(d) = Pad[k] /\ \A i \in 1 .. Pad[k] : d[i] = "d"
  BY <1>1, <1>4
<1>6. Packet(k) = (h \o d) \o t
  BY DEF Packet
<1> HIDE DEF h, d, t
<1>7. /\ h \o d \in Seq(Byte) /\ Len(h \o d) = 2 + Pad[k]
      /\ \A i \in 1 .. 2 + Pad[k] : (h \o d)[i] = IF i <= 2 THEN h[i] ELSE d[i - 2]
  <2>1. /\ h \o d \in Seq(Byte) /\ Len(h \o d) = Len(h) + Len(d)
        /\ \A i \in 1 .. Len(h) + Len(d) :
             (h \o d)[i] = IF i <= Len(h) THEN h[i] ELSE d[i - Len(h)]
    BY <1>2, <1>5, ConcatProperties
  <2> QED
    BY <1>2, <1>5, <2>1
<1> DEFINE e == h \o d
<1> HIDE DEF e
<1>8. /\ Packet(k) \in Seq(Byte) /\ Len(Packet(k)) = 2 + Pad[k] + 3
      /\ \A i \in 1 .. 2 + Pad[k] + 3 :
           Packet(k)[i] = IF i <= 2 + Pad[k] THEN e[i] ELSE t[i - (2 + Pad[k])]
  <2>1. e \in Seq(Byte) /\ Len(e) = 2 + Pad[k] /\ Packet(k) = e \o t
    BY <1>6, <1>7 DEF e
  <2>2. /\ e \o t \in Seq(Byte) /\ Len(e \o t) = Len(e) + Len(t)
        /\ \A i \in 1 .. Len(e) + Len(t) :
             (e \o t)[i] = IF i <= Len(e) THEN e[i] ELSE t[i - Len(e)]
    BY <1>3, <2>1, ConcatProperties
  <2> QED
    BY <1>3, <2>1, <2>2
<1>9. Packet(k)[1] = "$" /\ Packet(k)[2] = k
  <2>1. 1 \in 1 .. 2 + Pad[k] /\ 2 \in 1 .. 2 + Pad[k]
    BY <1>4
  <2>2. e[1] = h[1] /\ e[2] = h[2]
    BY <1>7, <2>1 DEF e
  <2>3. 1 \in 1 .. 2 + Pad[k] + 3 /\ 2 \in 1 .. 2 + Pad[k] + 3 /\ 1 <= 2 + Pad[k] /\ 2 <= 2 + Pad[k]
    BY <1>4
  <2> QED
    BY <1>2, <1>8, <2>2, <2>3
<1>10. ASSUME NEW i \in 3 .. Pad[k] + 2  PROVE Packet(k)[i] = "d"
  <2>1. i \in 1 .. 2 + Pad[k] /\ i \in 1 .. 2 + Pad[k] + 3 /\ ~(i <= 2) /\ i - 2 \in 1 .. Pad[k]
    BY <1>4
  <2>2. e[i] = d[i - 2]
    BY <1>7, <2>1 DEF e
  <2>3. i <= 2 + Pad[k]
    BY <1>4
  <2> QED
    BY <1>5, <1>8, <2>1, <2>2, <2>3
<1>11. /\ Packet(k)[Pad[k] + 3] = t[1] /\ Packet(k)[Pad[k] + 4] = t[2]
       /\ Packet(k)[Pad[k] + 5] = t[3]
  <2>1. ASSUME NEW j \in 1 .. 3  PROVE Packet(k)[Pad[k] + 2 + j] = t[j]
    <3>1. /\ Pad[k] + 2 + j \in 1 .. 2 + Pad[k] + 3 /\ ~(Pad[k] + 2 + j <= 2 + Pad[k])
          /\ (Pad[k] + 2 + j) - (2 + Pad[k]) = j
      BY <1>4
    <3> QED
      BY <1>8, <3>1
  <2>2. /\ Pad[k] + 2 + 1 = Pad[k] + 3 /\ Pad[k] + 2 + 2 = Pad[k] + 4
        /\ Pad[k] + 2 + 3 = Pad[k] + 5
    BY <1>4
  <2>3. /\ Packet(k)[Pad[k] + 2 + 1] = t[1] /\ Packet(k)[Pad[k] + 2 + 2] = t[2]
        /\ Packet(k)[Pad[k] + 2 + 3] = t[3]
    BY <2>1
  <2> QED
    BY <2>2, <2>3
<1>12. Len(Packet(k)) = Pad[k] + 5
  BY <1>4, <1>8
<1> QED
  BY <1>3, <1>4, <1>8, <1>9, <1>10, <1>11, <1>12

\* A packet that follows junk is whole.
LEMMA WholeAsked ==
  ASSUME NEW p \in Seq(Byte), Junk(p), NEW k \in Commands
  PROVE  Whole(p \o Packet(k), k)
<1> DEFINE m == Len(p)
           c == Packet(k)
           q == p \o c
           n == Pad[k]
<1>1. /\ c \in Seq(Byte) /\ n \in Nat /\ Len(c) = n + 5
      /\ c[1] = "$" /\ c[2] = k /\ c[n + 3] = "#"
      /\ \A i \in 3 .. n + 2 : c[i] = "d"
      /\ c[n + 4] = "x" /\ c[n + 5] = "x"
  BY PacketBytes
<1>2. m \in Nat /\ \A i \in 1 .. m : p[i] \in Stale
  BY DEF Junk
<1>3. /\ Len(q) = m + n + 5
      /\ \A i \in 1 .. m + (n + 5) : q[i] = IF i <= m THEN p[i] ELSE c[i - m]
  <2> HIDE DEF c
  <2>1. /\ Len(q) = m + Len(c)
        /\ \A i \in 1 .. m + Len(c) : q[i] = IF i <= m THEN p[i] ELSE c[i - m]
    <3> HIDE DEF m, q, n
    <3>1. c \in Seq(Byte)
      BY <1>1
    <3>2. /\ Len(p \o c) = Len(p) + Len(c)
          /\ \A i \in 1 .. Len(p) + Len(c) :
               (p \o c)[i] = IF i <= Len(p) THEN p[i] ELSE c[i - Len(p)]
      BY <3>1, ConcatProperties
    <3> QED
      BY <3>2 DEF m, q
  <2>2. Len(c) = n + 5 /\ n \in Nat /\ m \in Nat
    BY <1>1, <1>2
  <2> HIDE DEF m, q, n
  <2>3. m + Len(c) = m + (n + 5) /\ m + (n + 5) = m + n + 5
    BY <2>2
  <2> QED
    BY <2>1, <2>3
<1> HIDE DEF m, c, q, n
<1>4. ASSUME NEW j \in 1 .. n + 5  PROVE q[m + j] = c[j]
  <2>1. m + j \in 1 .. m + (n + 5) /\ ~(m + j <= m) /\ (m + j) - m = j
    BY <1>1, <1>2
  <2> QED
    BY <1>3, <2>1
<1>5. q[m + 1] = "$" /\ q[m + 2] = k /\ q[m + n + 3] = "#"
  <2>1. 1 \in 1 .. n + 5 /\ 2 \in 1 .. n + 5 /\ n + 3 \in 1 .. n + 5 /\ m + (n + 3) = m + n + 3
    BY <1>1, <1>2
  <2>2. q[m + 1] = c[1] /\ q[m + 2] = c[2] /\ q[m + (n + 3)] = c[n + 3]
    BY <1>4, <2>1
  <2> QED
    BY <1>1, <2>1, <2>2
<1>6. ASSUME NEW i \in m + 3 .. m + n + 2  PROVE q[i] = "d"
  <2>1. i - m \in 1 .. n + 5 /\ i - m \in 3 .. n + 2 /\ m + (i - m) = i
    BY <1>1, <1>2
  <2>2. q[m + (i - m)] = c[i - m]
    BY <1>4, <2>1
  <2> QED
    BY <1>1, <2>1, <2>2
<1>7. ASSUME NEW i \in 1 .. Len(q), i <= m \/ m + n + 3 < i  PROVE q[i] \in Stale
  <2>1. i \in 1 .. m + (n + 5)
    BY <1>1, <1>2, <1>3
  <2>2. CASE i <= m
    BY <1>2, <1>3, <2>1, <2>2
  <2>3. CASE m + n + 3 < i
    <3>1. ~(i <= m) /\ (i - m = n + 4 \/ i - m = n + 5)
      BY <1>1, <1>2, <2>1, <2>3
    <3>2. q[i] = c[i - m]
      BY <1>3, <2>1, <3>1
    <3> QED
      BY <1>1, <3>1, <3>2 DEF Stale
  <2> QED
    BY <1>7, <2>2, <2>3
<1>8. m + n + 3 <= Len(q) /\ m \in 0 .. Len(q)
  BY <1>1, <1>2, <1>3
<1>9. Lies(q, k, m)
  BY <1>5, <1>6, <1>7, <1>8 DEF Lies, n
<1> QED
  BY <1>8, <1>9 DEF Whole, q, c

(***************************************************************************)
(* What the scanner finds in them.                                         *)
(***************************************************************************)
LEMMA ScanFinds ==
  ASSUME NEW c \in CommandType, Exact(c)
  PROVE  /\ Scan(c).buffer = c.buffer /\ Scan(c).busy = c.busy
         /\ Scan(c).dollar = FirstFrom(c.buffer, "$", 0)
         /\ Scan(c).sharp = FirstFrom(c.buffer, "#", 0)
<1>1. c.buffer \in Seq(Byte) /\ Len(c.buffer) \in Nat
  BY DEF CommandType
<1>2. Scan(c).buffer = c.buffer /\ Scan(c).scan = Len(c.buffer) /\ Scan(c).busy = c.busy
  BY DEF Scan, CommandType
<1>3. SubSeq(c.buffer, 1, Len(c.buffer)) = c.buffer
  BY <1>1, SubSeqFull
<1>4. /\ Scan(c).dollar = FirstFrom(SubSeq(c.buffer, 1, Len(c.buffer)), "$", 0)
      /\ Scan(c).sharp = FirstFrom(SubSeq(c.buffer, 1, Len(c.buffer)), "#", 0)
  BY <1>2, ScanIsExact DEF Exact
<1> QED
  BY <1>2, <1>3, <1>4

LEMMA JunkHidesNothing ==
  ASSUME command \in CommandType, Exact(command), Junk(command.buffer)
  PROVE  ~CommandFound
<1> DEFINE s == Scan(command)
           b == command.buffer
<1>1. b \in Seq(Byte) /\ Len(b) \in Nat /\ \A i \in 1 .. Len(b) : b[i] \in Stale
  BY DEF CommandType, Junk
<1>2. s.buffer = b /\ s.dollar = FirstFrom(b, "$", 0)
  BY ScanFinds
<1> HIDE DEF s, b
<1>3. FirstFrom(b, "$", 0) = -1
  <2>1. ASSUME NEW i \in 0 .. (Len(b) - 1)  PROVE b[i + 1] # "$"
    <3>1. i + 1 \in 1 .. Len(b)
      BY <1>1
    <3>2. b[i + 1] \in Stale
      BY <1>1, <3>1
    <3> QED
      BY <3>2 DEF Stale
  <2>2. {i \in 0 .. (Len(b) - 1) : b[i + 1] = "$"} = {}
    BY <2>1
  <2> QED
    BY <2>2 DEF FirstFrom
<1>4. ~Framed(s)
  BY <1>2, <1>3 DEF Framed
<1>5. b # <<"^C">>
  <2>1. ASSUME b = <<"^C">>  PROVE FALSE
    <3>1. Len(b) = 1 /\ b[1] = "^C"
      BY <2>1
    <3>2. b[1] \in Stale
      BY <1>1, <3>1
    <3> QED
      BY <3>1, <3>2 DEF Stale
  <2> QED
    BY <2>1
<1>6. ~IsBreak(s)
  BY <1>2, <1>5 DEF IsBreak
<1> QED
  BY <1>4, <1>6 DEF CommandFound, s

\* In whatever pieces the bytes come, the scanner finds the packet when its "#"
\* has come, and nothing else.
LEMMA WholeFound ==
  ASSUME command \in CommandType, Exact(command), NEW q \in Seq(Byte),
         NEW k \in Commands, Whole(command.buffer \o q, k), CommandFound
  PROVE  LET s == Scan(command)
         IN  /\ Framed(s) /\ s.buffer = command.buffer
             /\ s.dollar + 2 <= Len(s.buffer) /\ s.buffer[s.dollar + 2] = k
             /\ Content(s) = SubSeq(Packet(k), 2, Pad[k] + 2)
             /\ Junk(q)
<1> DEFINE s == Scan(command)
           b == command.buffer
           p == b \o q
           n == Pad[k]
<1>1. b \in Seq(Byte) /\ Len(b) \in Nat /\ Len(q) \in Nat /\ n \in Nat
  BY PacketBytes DEF CommandType
<1>2. /\ s.buffer = b
      /\ s.dollar = FirstFrom(b, "$", 0) /\ s.sharp = FirstFrom(b, "#", 0)
  BY ScanFinds
<1>3. /\ Len(p) = Len(b) + Len(q)
      /\ \A i \in 1 .. Len(b) + Len(q) : p[i] = IF i <= Len(b) THEN b[i] ELSE q[i - Len(b)]
  BY <1>1, ConcatProperties
<1>4. PICK m \in 0 .. Len(p) : Lies(p, k, m)
  BY DEF Whole
<1>5. k \notin {"$", "#", "^C", "+", "x", "d"}
  BY PacketAssumption
<1>6. Framed(s) \/ b = <<"^C">>
  BY <1>2 DEF CommandFound, IsBreak
<1> HIDE DEF s, b, p, n
<1>7. /\ m \in Nat /\ m + n + 3 <= Len(b) + Len(q)
      /\ p[m + 1] = "$" /\ p[m + 2] = k /\ p[m + n + 3] = "#"
      /\ \A i \in m + 3 .. m + n + 2 : p[i] = "d"
      /\ \A i \in 1 .. Len(p) : i <= m \/ m + n + 3 < i => p[i] \in Stale
  BY <1>1, <1>3, <1>4 DEF Lies, n
\* Where the two marks are, and that there are no others.
<1>8. ASSUME NEW i \in 1 .. Len(p)
      PROVE  /\ p[i] = "$" => i = m + 1
             /\ p[i] = "#" => i = m + n + 3
             /\ p[i] # "^C"
  <2>1. CASE i <= m \/ m + n + 3 < i
    <3>1. p[i] \in Stale
      BY <1>7, <2>1
    <3> QED
      BY <3>1 DEF Stale
  <2>2. CASE i \in m + 3 .. m + n + 2
    <3>1. p[i] = "d"
      BY <1>7, <2>2
    <3> QED
      BY <3>1
  <2>3. CASE i = m + 1
    <3>1. m + 1 # m + n + 3 /\ p[i] = "$"
      BY <1>1, <1>7, <2>3
    <3> QED
      BY <2>3, <3>1
  <2>4. CASE i = m + 2
    <3>1. p[i] = k
      BY <1>7, <2>4
    <3> QED
      BY <1>5, <3>1
  <2>5. CASE i = m + n + 3
    <3>1. p[i] = "#"
      BY <1>7, <2>5
    <3> QED
      BY <2>5, <3>1
  <2>6. i \in Int
    OBVIOUS
  <2> QED
    BY <1>1, <1>7, <2>1, <2>2, <2>3, <2>4, <2>5, <2>6
<1>9. ASSUME NEW i \in 1 .. Len(b)  PROVE i \in 1 .. Len(p) /\ p[i] = b[i]
  <2>1. i \in 1 .. Len(b) + Len(q) /\ i <= Len(b)
    BY <1>1
  <2> QED
    BY <1>3, <2>1
<1>10. Framed(s)
  <2>1. ASSUME b = <<"^C">>  PROVE FALSE
    <3>1. 1 \in 1 .. Len(b) /\ b[1] = "^C"
      BY <2>1
    <3> QED
      BY <1>8, <1>9, <3>1
  <2> QED
    BY <1>6, <2>1
<1>11. s.sharp = m + n + 2 /\ m + n + 3 <= Len(b)
  <2>1. s.sharp \in 0 .. (Len(b) - 1) /\ b[s.sharp + 1] = "#"
    <3>1. \/ s.sharp = -1
          \/ s.sharp \in 0 .. (Len(b) - 1) /\ b[s.sharp + 1] = "#"
      BY <1>1, <1>2, FirstFromProperties
    <3> QED
      BY <1>10, <3>1 DEF Framed
  <2>2. s.sharp + 1 \in 1 .. Len(b)
    BY <1>1, <2>1
  <2>3. s.sharp + 1 = m + n + 3
    BY <1>8, <1>9, <2>1, <2>2
  <2>4. s.sharp \in Int
    BY <1>1, <2>1
  <2>5. m + n + 3 <= Len(b)
    BY <1>1, <2>2, <2>3
  <2>6. ASSUME NEW j \in Int, j + 1 = m + n + 3  PROVE j = m + n + 2
    BY <1>1, <1>7, <2>6
  <2> QED
    BY <2>3, <2>4, <2>5, <2>6
<1>12. s.dollar = m
  <2>1. s.dollar \in 0 .. (Len(b) - 1) /\ b[s.dollar + 1] = "$"
    <3>1. \/ s.dollar = -1
          \/ s.dollar \in 0 .. (Len(b) - 1) /\ b[s.dollar + 1] = "$"
      BY <1>1, <1>2, FirstFromProperties
    <3> QED
      BY <1>10, <3>1 DEF Framed
  <2>2. s.dollar + 1 \in 1 .. Len(b)
    BY <1>1, <2>1
  <2>3. s.dollar + 1 = m + 1
    BY <1>8, <1>9, <2>1, <2>2
  <2> QED
    BY <1>7, <2>1, <2>3
<1>13. s.dollar + 2 <= Len(b) /\ b[s.dollar + 2] = k
  <2>1. m + 2 \in 1 .. Len(b)
    BY <1>1, <1>7, <1>11
  <2> QED
    BY <1>7, <1>9, <1>12, <2>1
<1>14. Content(s) = SubSeq(Packet(k), 2, n + 2)
  <2> DEFINE u == SubSeq(b, m + 2, m + n + 2)
             v == SubSeq(Packet(k), 2, n + 2)
             c == Packet(k)
  <2>1. /\ c \in Seq(Byte) /\ Len(c) = n + 5 /\ c[2] = k /\ \A i \in 3 .. n + 2 : c[i] = "d"
    BY PacketBytes DEF n
  <2> HIDE DEF c
  <2>2. /\ u \in Seq(Byte) /\ Len(u) = n + 1
        /\ \A i \in 1 .. n + 1 : u[i] = b[m + 1 + i]
    <3>1. \A i \in m + 2 .. m + n + 2 : b[i] \in Byte
      BY <1>1, <1>7, <1>11
    <3>2. /\ m + 2 \in Int /\ m + n + 2 \in Int /\ m + 2 <= m + n + 2
          /\ (m + n + 2) - (m + 2) + 1 = n + 1
          /\ \A i \in 1 .. n + 1 : (m + 2) + i - 1 = m + 1 + i
      BY <1>1, <1>7
    <3> QED
      BY <3>1, <3>2, SubSeqProperties
  <2>3. /\ v \in Seq(Byte) /\ Len(v) = n + 1
        /\ \A i \in 1 .. n + 1 : v[i] = c[1 + i]
    <3>1. \A i \in 2 .. n + 2 : c[i] \in Byte
      BY <1>1, <2>1
    <3>2. /\ 2 \in Int /\ n + 2 \in Int /\ 2 <= n + 2 /\ (n + 2) - 2 + 1 = n + 1
          /\ \A i \in 1 .. n + 1 : 2 + i - 1 = 1 + i
      BY <1>1
    <3>3. /\ SubSeq(c, 2, n + 2) \in Seq(Byte) /\ Len(SubSeq(c, 2, n + 2)) = n + 1
          /\ \A i \in 1 .. n + 1 : SubSeq(c, 2, n + 2)[i] = c[2 + i - 1]
      BY <3>1, <3>2, SubSeqProperties
    <3> QED
      BY <3>2, <3>3 DEF c
  <2> HIDE DEF u, v
  <2>4. ASSUME NEW i \in 1 .. n + 1  PROVE u[i] = v[i]
    <3>1. CASE i = 1
      <4>1. b[m + 2] = k /\ m + 1 + 1 = m + 2 /\ 1 + 1 = 2
        BY <1>7, <1>12, <1>13
      <4>2. u[1] = b[m + 1 + 1] /\ v[1] = c[1 + 1]
        BY <2>2, <2>3, <3>1
      <4> QED
        BY <2>1, <3>1, <4>1, <4>2
    <3>2. CASE i # 1
      <4>1. /\ m + 1 + i \in 1 .. Len(b) /\ m + 1 + i \in m + 3 .. m + n + 2
            /\ 1 + i \in 3 .. n + 2
        BY <1>1, <1>7, <1>11, <3>2
      <4>2. b[m + 1 + i] = "d"
        BY <1>7, <1>9, <4>1
      <4> QED
        BY <2>1, <2>2, <2>3, <4>1, <4>2
    <3> QED
      BY <3>1, <3>2
  <2>5. u = v
    BY <2>2, <2>3, <2>4, SeqEqual
  <2> QED
    BY <1>2, <1>10, <1>11, <1>12, <2>5 DEF Content, u, v
<1>15. Junk(q)
  <2>1. ASSUME NEW i \in 1 .. Len(q)  PROVE q[i] \in Stale
    <3>1. /\ i + Len(b) \in 1 .. Len(b) + Len(q) /\ ~(i + Len(b) <= Len(b))
          /\ (i + Len(b)) - Len(b) = i /\ m + n + 3 < i + Len(b)
      BY <1>1, <1>7, <1>11
    <3>2. p[i + Len(b)] = q[i]
      BY <1>3, <3>1
    <3> QED
      BY <1>3, <1>7, <3>1, <3>2
  <2> QED
    BY <2>1 DEF Junk
<1> QED
  BY <1>2, <1>10, <1>13, <1>14, <1>15 DEF s, b, n

(***************************************************************************)
(* The steps that do not move the session on.                              *)
(***************************************************************************)
LEMMA PathTyped ==
  ASSUME IInv
  PROVE  /\ command \in CommandType /\ command.buffer \in Seq(Byte)
         /\ recvBuf \in Seq(Byte) /\ hostOut \in Seq(Byte)
         /\ Held \in Seq(Byte) /\ Coming \in Seq(Byte) /\ Path \in Seq(Byte)
<1>1. /\ command \in CommandType /\ command.buffer \in Seq(Byte)
      /\ recvBuf \in Seq(Byte) /\ hostOut \in Seq(Byte)
  BY DEF IInv, TypeOK, UsbTypeOK, PacketTypeOK, CommandType
<1>2. <<>> \in Seq(Byte)
  OBVIOUS
<1>3. Held \in Seq(Byte)
  BY <1>1, <1>2 DEF Held
<1>4. Coming \in Seq(Byte)
  BY <1>1, <1>3, ConcatProperties DEF Coming
<1>5. Path \in Seq(Byte)
  BY <1>1, <1>4, ConcatProperties DEF Path
<1> QED
  BY <1>1, <1>3, <1>4, <1>5

LEMMA StatesPrimed ==
  /\ Junk(Path)' <=> Junk(Path')
  /\ Junk(Coming)' <=> Junk(Coming')
  /\ Whole(Path, hostAsked)' <=> Whole(Path', hostAsked')
  /\ (Content(command) = SubSeq(Packet(hostAsked), 2, Pad[hostAsked] + 2))'
       <=> Content(command') = SubSeq(Packet(hostAsked'), 2, Pad[hostAsked'] + 2)
  /\ (response.body \in Session!Final(hostAsked))' <=> response'.body \in Session!Final(hostAsked')
BY DEF Junk, Stale, Whole, Lies, Content, Framed, Packet, Session!Final, Session!RunCommands

\* Bytes move along the path, the server looks in vain, the hart stops.
Undisturbed ==
  /\ UNCHANGED <<hostAsked, gdbConnected, targetRunning>>
  /\ \/ serverPc' = serverPc
     \/ serverPc \in {"poll", "runSent", "cmdWait"} /\ serverPc' \in {"poll", "cmdWait"}
  /\ command'.busy = command.busy
  /\ IF command.busy THEN command' = command /\ Coming' = Coming ELSE Path' = Path
  /\ Flying' <=> Flying
  /\ Flying => response'.body = response.body

LEMMA StateKept ==
  ASSUME SessionState, Undisturbed
  PROVE  SessionState'
<1> USE StatesPrimed
<1> HIDE DEF Flying, Junk, Whole, Content, Packet, Path, Coming
<1>1. CASE AtRest
  <2>1. AtRest'
    BY <1>1 DEF AtRest, Quiet, Undisturbed
  <2> QED
    BY <2>1 DEF SessionState
<1>2. CASE OnItsWay
  <2>1. OnItsWay'
    BY <1>2 DEF OnItsWay, Quiet, Undisturbed
  <2> QED
    BY <2>1 DEF SessionState
<1>3. CASE Executing
  <2>1. Executing'
    BY <1>3 DEF Executing, Taken, OnlyConsole, Undisturbed
  <2> QED
    BY <2>1 DEF SessionState
<1>4. CASE Running
  <2>1. Running'
    BY <1>4 DEF Running, OnlyConsole, Undisturbed
  <2> QED
    BY <2>1 DEF SessionState
<1>5. CASE Replied
  <2>1. Replied'
    BY <1>5 DEF Replied, Quiet, Undisturbed
  <2> QED
    BY <2>1 DEF SessionState
<1> QED
  BY <1>1, <1>2, <1>3, <1>4, <1>5 DEF SessionState

\* The receive half hands on what it holds.
LEMMA RecvKeeps ==
  ASSUME IInv, ArmedSound, FramedSound, Recv, UNCHANGED <<serverVars, hostVars>>
  PROVE  ArmedSound' /\ FramedSound' /\ Undisturbed
<1>1. UNCHANGED <<response, sendVars>>
  BY DEF Recv
<1>2. (Flying' <=> Flying) /\ FramedSound'
  BY <1>1 DEF Flying, FramedSound, sendVars
<1>3. UNCHANGED <<hostAsked, hostOut, gdbConnected, targetRunning, serverPc>>
  BY DEF serverVars, sessionVars, hostVars
<1>4. CASE RecvPush
  <2>1. /\ ~command.busy /\ command' = [command EXCEPT !.buffer = @ \o recvBuf]
        /\ recvPc = "push" /\ recvPc' = "clear" /\ UNCHANGED <<received, recvBuf, outArmed>>
    BY <1>4 DEF RecvPush, ProcessCommand, CommandAccepts
  <2>2. command'.busy = command.busy /\ command'.buffer = command.buffer \o recvBuf
    BY <2>1, PathTyped DEF CommandType
  <2>3. Held = recvBuf /\ Held' = <<>>
    BY <2>1 DEF Held
  <2>4. Path' = (command.buffer \o recvBuf) \o hostOut
    <3>1. Coming' = hostOut
      BY <1>3, <2>3, PathTyped, ConcatEmptySeq DEF Coming
    <3> QED
      BY <2>2, <3>1 DEF Path
  <2>5. Path = command.buffer \o (recvBuf \o hostOut)
    BY <2>3 DEF Path, Coming
  <2>6. Path' = Path
    <3>1. /\ command.buffer \in Seq(Byte) /\ recvBuf \in Seq(Byte) /\ hostOut \in Seq(Byte)
      BY PathTyped
    <3>2. \A b, r, o \in Seq(Byte) : (b \o r) \o o = b \o (r \o o)
      BY ConcatAssociative
    <3>3. (command.buffer \o recvBuf) \o hostOut = command.buffer \o (recvBuf \o hostOut)
      BY <3>1, <3>2
    <3> QED
      BY <2>4, <2>5, <3>3
  <2>7. ArmedSound'
    BY <2>1 DEF ArmedSound
  <2> QED
    BY <1>1, <1>2, <1>3, <2>1, <2>2, <2>6, <2>7 DEF Undisturbed
<1>5. CASE RecvConfigured \/ RecvClear \/ RecvArm \/ RecvWait
  <2>1. command' = command /\ recvBuf' = recvBuf
    BY <1>5 DEF RecvConfigured, RecvClear, RecvArm, RecvWait
  <2>2. Held' = Held /\ ArmedSound'
    BY <1>5, <2>1 DEF RecvConfigured, RecvClear, RecvArm, RecvWait, Held, ArmedSound
  <2>3. Coming' = Coming /\ Path' = Path
    BY <1>3, <2>1, <2>2 DEF Coming, Path
  <2> QED
    BY <1>1, <1>2, <1>3, <2>1, <2>2, <2>3 DEF Undisturbed
<1> QED
  BY <1>4, <1>5 DEF Recv

\* The send half submits a response; the one it releases has arrived.
LEMMA SendKeeps ==
  ASSUME IInv, ArmedSound, FramedSound, Send, UNCHANGED <<serverVars, hostVars>>
  PROVE  ArmedSound' /\ FramedSound' /\ Undisturbed
<1>1. UNCHANGED <<command, recvVars>>
  BY DEF Send
<1>2. UNCHANGED <<hostAsked, hostOut, gdbConnected, targetRunning, serverPc>>
  BY DEF serverVars, sessionVars, hostVars
<1>3. Coming' = Coming /\ Path' = Path /\ ArmedSound'
  BY <1>1, <1>2 DEF Coming, Path, Held, ArmedSound, recvVars
<1>4. CASE SendConfigured \/ SendGet \/ SendClear
  BY <1>1, <1>2, <1>3, <1>4 DEF SendConfigured, SendGet, SendClear, Flying, FramedSound, Undisturbed
<1>5. CASE SendSubmit
  <2>1. ~response.busy /\ response.len > 0
    BY <1>5 DEF SendSubmit, IInv, Ownership, FramedSound
  <2> QED
    BY <1>1, <1>2, <1>3, <1>5, <2>1 DEF SendSubmit, Flying, FramedSound, Undisturbed
<1>6. CASE SendRelease
  <2>1. inXfer = Idle /\ ~(inXfer > 0)
    BY <1>6 DEF SendRelease, IInv, Ownership, Idle
  <2>2. response'.busy
    BY <1>6 DEF SendRelease, ReleaseResponse, IInv, TypeOK, UsbTypeOK, PacketTypeOK, ResponseType
  <2> QED
    BY <1>1, <1>2, <1>3, <1>6, <2>1, <2>2 DEF SendRelease, Flying, FramedSound, Undisturbed
<1> QED
  BY <1>4, <1>5, <1>6 DEF Send

\* A USB packet takes the next bytes of the host.
LEMMA UsbOutKeeps ==
  ASSUME IInv, ArmedSound, FramedSound, UsbOut
  PROVE  ArmedSound' /\ FramedSound' /\ Undisturbed
<1>1. PICK n \in 1 .. Len(hostOut) :
        /\ DataOut(SubSeq(hostOut, 1, n))
        /\ hostOut' = SubSeq(hostOut, n + 1, Len(hostOut))
  BY DEF UsbOut
<1>2. /\ UNCHANGED <<command, response, recvPc, sendPc, inXfer, serverPc, gdbConnected,
                     targetRunning, hostAsked>>
  BY <1>1 DEF UsbOut, DataOut, packetVars, sendVars, serverVars, sessionVars
<1>3. recvPc = "wait" /\ ~received /\ received' = TRUE /\ outArmed' = FALSE
      /\ recvBuf' = SubSeq(hostOut, 1, n)
  BY <1>1 DEF DataOut, ArmedSound
<1>4. Held = <<>> /\ Held' = SubSeq(hostOut, 1, n)
  BY <1>2, <1>3 DEF Held
<1>5. SubSeq(hostOut, 1, n) \o SubSeq(hostOut, n + 1, Len(hostOut)) = hostOut
  <2>1. hostOut \in Seq(Byte) /\ Len(hostOut) \in Nat
    BY PathTyped
  <2>2. /\ 1 \in 1 .. Len(hostOut) + 1 /\ n \in 1 - 1 .. Len(hostOut)
        /\ Len(hostOut) \in n .. Len(hostOut)
    BY <2>1
  <2> QED
    BY <2>1, <2>2, ConcatAdjacentSubSeq, SubSeqFull
<1>6. Coming' = hostOut /\ Coming = hostOut
  BY <1>1, <1>4, <1>5, PathTyped, ConcatEmptySeq DEF Coming
<1>7. Path' = Path
  BY <1>2, <1>6 DEF Path
<1>8. ArmedSound' /\ FramedSound' /\ (Flying' <=> Flying)
  BY <1>2, <1>3 DEF ArmedSound, FramedSound, Flying
<1> QED
  BY <1>2, <1>6, <1>7, <1>8 DEF Undisturbed

(***************************************************************************)
(* The server executes the command GDB has asked, and answers it.          *)
(***************************************************************************)
Framing(y, r) == ~y.busy /\ y.body = r /\ y.len > 0

LEMMA RespondFrames ==
  ASSUME NEW x \in ResponseType, NEW r \in Replies
  PROVE  /\ Framing(Respond(x, r), r)
         /\ Respond(x, r).ack = ~x.noAck /\ Respond(x, r).noAck = x.noAck
         /\ Respond(x, r) \in ResponseType
<1>1. ReplyLen[r] \in Nat
  BY PacketAssumption
<1>2. ReplyLen[r] + (IF x.noAck THEN 1 ELSE 2) + 3 > 0
  BY <1>1
<1> QED
  BY <1>2, Responded DEF Framing, Respond, ResponseType

LEMMA ResponseTyped ==
  ASSUME IInv  PROVE response \in ResponseType
BY DEF IInv, TypeOK, UsbTypeOK, PacketTypeOK

\* Nothing but the server moves in a step of the server.
Serving == (ServerPoll \/ CmdTake) /\ UNCHANGED <<usbVars, hostVars>>

LEMMA ServingKeeps ==
  ASSUME Serving
  PROVE  /\ UNCHANGED <<Coming, hostAsked, hostPhase, hostAck, sendPc, inXfer, configured>>
         /\ ArmedSound => ArmedSound'
BY DEF Serving, usbVars, recvVars, sendVars, hostVars, Coming, Held, ArmedSound

LEMMA FramingFlies ==
  ASSUME IInv, Serving, response.busy, NEW r, Framing(response', r)
  PROVE  Flying' /\ FramedSound' /\ response'.body = r /\ (r = "O" => OnlyConsole')
<1>1. sendPc # "wait"
  BY DEF IInv, Ownership
<1> QED
  BY <1>1, ServingKeeps DEF Framing, Flying, FramedSound, OnlyConsole

\* The end of a handler that answers.
LEMMA Ends ==
  ASSUME IInv, Executing, Serving, response.busy, NEW r \in Session!Final(hostAsked),
         Framing(response', r), Finish, ~(gdbConnected' /\ targetRunning')
  PROVE  SessionState' /\ FramedSound'
<1>1. command' = NoCommand /\ serverPc' = "poll"
  BY DEF Finish, CommandDone
<1>2. ~command'.busy /\ command'.buffer = <<>>
  BY <1>1 DEF NoCommand
<1>3. Coming' = Coming /\ Junk(Coming) /\ hostAsked' = hostAsked /\ hostAsked # None
  BY ServingKeeps DEF Executing
<1>4. Path' = Coming
  BY <1>2, <1>3, PathTyped, ConcatEmptySeq DEF Path
<1>5. Junk(Path)' /\ (response.body \in Session!Final(hostAsked))'
  BY <1>3, <1>4, FramingFlies, StatesPrimed
<1>6. Replied'
  BY <1>1, <1>2, <1>3, <1>5, FramingFlies DEF Replied, Quiet
<1> QED
  BY <1>6, FramingFlies DEF SessionState

LEMMA AnswerEnds ==
  ASSUME IInv, Executing, Serving, response.busy,
         NEW r \in Session!Final(hostAsked) \cap Replies, Answer(r)
  PROVE  SessionState' /\ FramedSound'
<1>1. Framing(response', r) /\ Finish /\ UNCHANGED sessionVars
  BY RespondFrames, ResponseTyped DEF Answer, ResponseDone
<1>2. ~(gdbConnected' /\ targetRunning')
  BY <1>1 DEF Executing, sessionVars
<1> QED
  BY <1>1, <1>2, Ends

\* The command stays taken while its handler waits.
LEMMA Continues ==
  ASSUME IInv, Executing, Serving, command' = command, UNCHANGED sessionVars,
         \/ serverPc' = "rcmdOut" /\ hostAsked \in Monitor /\ OnlyConsole'
         \/ serverPc' = "rcmdText" /\ hostAsked = "show" /\ OnlyConsole'
         \/ serverPc' = "reset" /\ hostAsked = "reset" /\ ~Flying'
  PROVE  SessionState'
<1> HIDE DEF Flying, Junk, Whole, Content, Packet, Path, Coming
<1>1. Executing'
  BY ServingKeeps, StatesPrimed DEF Executing, Taken, sessionVars
<1> QED
  BY <1>1 DEF SessionState

LEMMA RcmdMoves ==
  ASSUME IInv, Executing, Serving, response.busy, Rcmd
  PROVE  SessionState' /\ FramedSound'
<1>0. Current = hostAsked /\ response \in ResponseType
  BY ResponseTyped DEF Executing, Taken, Current
<1>1. CASE RcmdReset
  <2>1. response' = response /\ command' = command /\ ~Flying' /\ FramedSound'
    BY <1>1 DEF RcmdReset, packetVars, Flying, FramedSound
  <2> QED
    BY <1>0, <1>1, <2>1, Continues DEF RcmdReset
<1>2. CASE RcmdShow
  <2>1. Framing(response', "O")
    BY <1>0, <1>2, RespondFrames DEF RcmdShow, ResponseDone, Replies
  <2> QED
    BY <1>0, <1>2, <2>1, FramingFlies, Continues DEF RcmdShow
<1>3. CASE RcmdVcom
  <2>1. PICK r \in {"OK", "err"} : ResponseDone(r)
    BY <1>3 DEF RcmdVcom
  <2>2. Framing(response', r)
    BY <1>0, <2>1, RespondFrames DEF ResponseDone, Replies
  <2>3. r \in Session!Final(hostAsked)
    BY <1>0, <1>3 DEF RcmdVcom, Session!Final, Session!RunCommands
  <2>4. Finish /\ ~(gdbConnected' /\ targetRunning')
    BY <1>3 DEF RcmdVcom, Executing, sessionVars
  <2> QED
    BY <1>0, <2>2, <2>3, <2>4, Ends
<1>4. CASE RcmdHalt
  <2>1. "OK" \in Session!Final(hostAsked) \cap Replies
    BY <1>0, <1>4 DEF RcmdHalt, Session!Final, Session!RunCommands, Replies
  <2> QED
    BY <1>4, <2>1, AnswerEnds DEF RcmdHalt
<1>5. CASE RcmdUnsupported
  <2>1. "text" \in Session!Final(hostAsked) \cap Replies
    BY <1>0, <1>5 DEF RcmdUnsupported, Session!Final, Session!RunCommands, Replies
  <2> QED
    BY <1>5, <2>1, AnswerEnds DEF RcmdUnsupported
<1> QED
  BY <1>1, <1>2, <1>3, <1>4, <1>5 DEF Rcmd

LEMMA DispatchMoves ==
  ASSUME IInv, Executing, Serving, Dispatch
  PROVE  SessionState' /\ FramedSound'
<1>0. /\ Current = hostAsked /\ hostAsked \in Commands /\ response \in ResponseType
      /\ response.busy
  BY ResponseTyped DEF Executing, Taken, Current, Dispatch, IInv, TypeOK
<1>1. CASE CmdqSupported
  <2>1. [response EXCEPT !.noAck = FALSE] \in ResponseType
    BY <1>0 DEF ResponseType
  <2>2. Framing(response', "data")
    BY <1>1, <2>1, RespondFrames DEF CmdqSupported, Replies
  <2>3. "data" \in Session!Final(hostAsked)
    BY <1>0, <1>1 DEF CmdqSupported, Session!Final, Session!RunCommands
  <2>4. Finish /\ ~(gdbConnected' /\ targetRunning')
    BY <1>1 DEF CmdqSupported, Connected
  <2> QED
    BY <1>0, <2>2, <2>3, <2>4, Ends
<1>2. CASE CmdQ
  <2>1. Framing(response', "OK")
    <3>1. Respond(response, "OK") \in ResponseType /\ Framing(Respond(response, "OK"), "OK")
      BY <1>0, RespondFrames DEF Replies
    <3> QED
      BY <1>2, <3>1 DEF CmdQ, Framing, ResponseType
  <2>2. "OK" \in Session!Final(hostAsked)
    BY <1>0, <1>2 DEF CmdQ, Session!Final, Session!RunCommands
  <2>3. Finish /\ ~(gdbConnected' /\ targetRunning')
    BY <1>2 DEF CmdQ, Executing, sessionVars
  <2> QED
    BY <1>0, <2>1, <2>2, <2>3, Ends
<1>3. CASE CmdResume
  <2>1. /\ command' = NoCommand /\ serverPc' = "poll" /\ response' = response
        /\ hostAsked \in {"c", "s"}
    BY <1>0, <1>3 DEF CmdResume, Finish, CommandDone
  <2>2. ~command'.busy /\ command'.buffer = <<>>
    BY <2>1 DEF NoCommand
  <2>3. Coming' = Coming /\ Junk(Coming) /\ hostAsked' = hostAsked
    BY ServingKeeps DEF Executing
  <2>4. Path' = Coming
    BY <2>2, <2>3, PathTyped, ConcatEmptySeq DEF Path
  <2>5. Junk(Path)' /\ OnlyConsole' /\ FramedSound'
    BY <1>0, <2>1, <2>3, <2>4, StatesPrimed DEF OnlyConsole, Flying, FramedSound
  <2>6. Running'
    BY <2>1, <2>2, <2>3, <2>5 DEF Running, Executing
  <2> QED
    BY <2>5, <2>6 DEF SessionState
<1>4. ASSUME NEW r \in Replies \cap Session!Final(hostAsked), ResponseDone(r), Disconnected, Finish
      PROVE  SessionState' /\ FramedSound'
  <2>1. Framing(response', r)
    BY <1>0, <1>4, RespondFrames DEF ResponseDone
  <2>2. ~(gdbConnected' /\ targetRunning')
    BY <1>4 DEF Disconnected
  <2> QED
    BY <1>0, <1>4, <2>1, <2>2, Ends
<1>5. CASE CmdKill
  <2>1. "OK" \in Replies \cap Session!Final(hostAsked)
    BY <1>0, <1>5 DEF CmdKill, Session!Final, Session!RunCommands, Replies
  <2> QED
    BY <1>4, <1>5, <2>1 DEF CmdKill
<1>6. CASE CmdFlash
  <2>1. {"OK", "err"} \subseteq Replies \cap Session!Final(hostAsked)
    BY <1>0, <1>6 DEF CmdFlash, Session!Final, Session!RunCommands, Replies
  <2> QED
    BY <1>0, <1>4, <1>6, <2>1, AnswerEnds DEF CmdFlash
<1>7. CASE CmdvMustReplyEmpty
  <2>1. {"empty", "text"} \subseteq Replies \cap Session!Final(hostAsked)
    BY <1>0, <1>7 DEF CmdvMustReplyEmpty, Session!Final, Session!RunCommands, Replies
  <2>2. (IF console THEN "text" ELSE "empty") \in Replies \cap Session!Final(hostAsked)
    BY <2>1
  <2> QED
    BY <1>0, <1>4, <1>7, <2>1, <2>2, AnswerEnds DEF CmdvMustReplyEmpty
<1>8. CASE CmdqRcmd
  <2>1. CASE RcmdFlush
    <3>1. Framing(response', "O")
      BY <1>0, <2>1, RespondFrames DEF RcmdFlush, ResponseDone, Replies
    <3> QED
      BY <1>0, <2>1, <3>1, FramingFlies, Continues DEF RcmdFlush
  <2> QED
    BY <1>0, <1>8, <2>1, RcmdMoves DEF CmdqRcmd
<1>9. CASE CmdqXfer \/ CmdH \/ CmdQuestionMark \/ CmdRead \/ CmdWrite
             \/ CmdBreakpoint \/ CmdFlashDone
  <2>1. PICK r \in Replies \cap Session!Final(hostAsked) : Answer(r)
    BY <1>0, <1>9 DEF CmdqXfer, CmdH, CmdQuestionMark, CmdRead, CmdWrite, CmdBreakpoint,
                      CmdFlashDone, Replies, Session!Final, Session!RunCommands
  <2> QED
    BY <1>0, <2>1, AnswerEnds
<1>10. CASE CmdOther
  <2>1. "empty" \in Replies \cap Session!Final(hostAsked)
    BY <1>0, <1>10 DEF CmdOther, Known, Monitor, Session!Final, Session!RunCommands, Replies
  <2> QED
    BY <1>0, <1>10, <2>1, AnswerEnds DEF CmdOther
<1> QED
  BY <1>1, <1>2, <1>3, <1>5, <1>6, <1>7, <1>8, <1>9, <1>10 DEF Dispatch

\* While nothing is taken the server scans, and it takes a whole command.
LEMMA CommandQuiet ==
  ASSUME IInv, Quiet, Serving
  PROVE  CmdNone \/ (CmdTake /\ CommandFound)
BY DEF Serving, Quiet, ServerPoll, RunConsole, RunIdle, RunBreak, RunDrop, RunPoll, CmdTake,
       Dispatch, RcmdAfterFlush, RcmdShown, RcmdResetDone

LEMMA ScanKeeps ==
  ASSUME IInv, FramedSound, Serving, ~command.busy, NothingFound, response' = response,
         UNCHANGED <<gdbConnected, targetRunning>>,
         serverPc \in {"poll", "runSent", "cmdWait"}, serverPc' \in {"poll", "cmdWait"}
  PROVE  Undisturbed /\ FramedSound'
<1>1. command'.buffer = command.buffer /\ command'.busy = command.busy
  BY PathTyped DEF NothingFound, Scan, CommandType
<1>2. Path' = Path
  BY <1>1, ServingKeeps DEF Path
<1>3. (Flying' <=> Flying) /\ FramedSound'
  BY ServingKeeps DEF Flying, FramedSound
<1> QED
  BY <1>1, <1>2, <1>3, ServingKeeps DEF Undisturbed

LEMMA NothingInJunk ==
  ASSUME IInv, Exact(command), Junk(Path)
  PROVE  ~CommandFound
<1>1. Junk(command.buffer)
  BY PathTyped, JunkConcat DEF Path
<1> QED
  BY <1>1, PathTyped, JunkHidesNothing

LEMMA Takes ==
  ASSUME IInv, Exact(command), OnItsWay, FramedSound, Serving, CmdTake, CommandFound
  PROVE  SessionState' /\ FramedSound'
<1> DEFINE s == Scan(command)
<1>1. hostAsked \in Commands
  BY DEF OnItsWay, IInv, TypeOK
<1>2. /\ Framed(s) /\ s.buffer = command.buffer
      /\ s.dollar + 2 <= Len(s.buffer) /\ s.buffer[s.dollar + 2] = hostAsked
      /\ Content(s) = SubSeq(Packet(hostAsked), 2, Pad[hostAsked] + 2)
      /\ Junk(Coming)
  BY <1>1, PathTyped, WholeFound DEF OnItsWay, Path
<1>3. s \in CommandType
  BY PathTyped, ScanTyped
<1>4. command' = [s EXCEPT !.busy = TRUE, !.first = hostAsked, !.cmdLen = s.sharp - s.dollar - 1]
  BY <1>2 DEF CmdTake, TakeCommand
<1> HIDE DEF s
<1>5. /\ command'.busy /\ command'.first = hostAsked
      /\ command'.buffer = s.buffer /\ command'.dollar = s.dollar /\ command'.sharp = s.sharp
  <2>1. s.sharp - s.dollar - 1 \in Int
    BY <1>3 DEF CommandType
  <2> QED
    BY <1>3, <1>4, <2>1 DEF CommandType
<1>6. Content(command') = Content(s)
  BY <1>5 DEF Content, Framed
<1>7. Taken'
  <2> HIDE DEF Content, Packet
  <2>1. hostAsked' = hostAsked
    BY ServingKeeps
  <2> QED
    BY <1>2, <1>5, <1>6, <2>1, StatesPrimed DEF Taken
<1>8. response' = response /\ serverPc' = "resWait" /\ UNCHANGED sessionVars
  BY DEF CmdTake
<1>9. (Flying' <=> Flying) /\ FramedSound' /\ ~Flying /\ ~(gdbConnected /\ targetRunning)
  BY <1>8, ServingKeeps DEF Flying, FramedSound, OnItsWay, Quiet
<1>10. Executing'
  BY <1>2, <1>7, <1>8, <1>9, ServingKeeps, StatesPrimed DEF Executing, OnItsWay, sessionVars
<1> QED
  BY <1>9, <1>10 DEF SessionState

LEMMA QuietMoves ==
  ASSUME IInv, Exact(command), SessionState, FramedSound, Quiet, Serving
  PROVE  SessionState' /\ FramedSound'
<1>1. CASE CmdNone
  <2>1. Undisturbed /\ FramedSound'
    BY <1>1, ScanKeeps DEF CmdNone, Quiet, sessionVars
  <2> QED
    BY <2>1, StateKept
<1>2. CASE CmdTake /\ CommandFound
  <2>1. ~Executing
    BY DEF Executing, Taken, Quiet
  <2>2. OnItsWay
    BY <1>2, <2>1, NothingInJunk DEF SessionState, AtRest, Running, Replied
  <2> QED
    BY <1>2, <2>2, Takes
<1> QED
  BY <1>1, <1>2, CommandQuiet

LEMMA ExecutingMoves ==
  ASSUME IInv, Executing, Serving, FramedSound
  PROVE  SessionState' /\ FramedSound'
<1>1. Dispatch \/ RcmdAfterFlush \/ RcmdShown \/ RcmdResetDone
  BY DEF Serving, Executing, ServerPoll, RunConsole, RunIdle, RunBreak, RunDrop, RunPoll,
         CmdTake, CmdNone, CmdPoll
<1>2. CASE RcmdAfterFlush
  BY <1>2, RcmdMoves DEF RcmdAfterFlush
<1>3. CASE RcmdShown \/ RcmdResetDone
  <2>1. hostAsked \in {"show", "reset"} /\ response.busy /\ Answer("OK")
    BY <1>3 DEF RcmdShown, RcmdResetDone, Executing, IInv, Ownership
  <2>2. "OK" \in Session!Final(hostAsked) \cap Replies
    BY <2>1 DEF Session!Final, Session!RunCommands, Replies
  <2> QED
    BY <2>1, <2>2, AnswerEnds
<1> QED
  BY <1>1, <1>2, <1>3, DispatchMoves

\* The target runs: the server shows what it prints, and reports its stop.
LEMMA RunningMoves ==
  ASSUME IInv, Exact(command), Running, Serving, FramedSound
  PROVE  SessionState' /\ FramedSound'
<1>0. ~CommandFound /\ SessionState /\ response \in ResponseType
  BY NothingInJunk, ResponseTyped DEF Running, SessionState
<1>1. RunConsole \/ RunIdle \/ CmdNone
  BY <1>0 DEF Serving, Running, ServerPoll, RunBreak, BreakFound, RunDrop, CmdTake, Dispatch,
              RcmdAfterFlush, RcmdShown, RcmdResetDone
<1>2. CASE RunConsole
  <2>1. response.busy
    BY <1>2 DEF RunConsole, IInv, Ownership
  <2>2. Framing(response', "O")
    BY <1>0, <1>2, RespondFrames DEF RunConsole, ResponseDone, Replies
  <2>3. command' = command /\ serverPc' = "runSent"
    BY <1>2 DEF RunConsole
  <2>4. Path' = Path
    BY <2>3, ServingKeeps DEF Path
  <2>5. Running'
    <3> HIDE DEF Path
    <3> QED
      BY <2>1, <2>2, <2>3, <2>4, FramingFlies, ServingKeeps, StatesPrimed DEF Running
  <2> QED
    BY <2>1, <2>2, <2>5, FramingFlies DEF SessionState
<1>3. CASE CmdNone
  <2>1. Undisturbed /\ FramedSound'
    BY <1>3, ScanKeeps DEF CmdNone, Running, sessionVars
  <2> QED
    BY <1>0, <2>1, StateKept
<1>4. CASE RunIdle
  <2>1. /\ response.busy /\ serverPc' = "poll" /\ gdbConnected' = gdbConnected
        /\ NothingFound /\ HaltCheck
    BY <1>4 DEF RunIdle, RunPoll, IInv, Ownership
  <2>2. CASE hart # "halted"
    <3>1. Undisturbed /\ FramedSound'
      BY <2>1, <2>2, ScanKeeps DEF HaltCheck, Running
    <3> QED
      BY <1>0, <3>1, StateKept
  <2>3. CASE hart = "halted"
    <3>1. Framing(response', "T05") /\ ~targetRunning'
      BY <1>0, <2>1, <2>3, RespondFrames DEF HaltCheck, ResponseDone, Replies
    <3>2. command'.buffer = command.buffer /\ ~command'.busy
      BY <2>1, PathTyped DEF NothingFound, Scan, CommandType, Running
    <3>3. Path' = Path
      BY <3>2, ServingKeeps DEF Path
    <3>4. "T05" \in Session!Final(hostAsked) /\ hostAsked # None
      BY DEF Running, Session!Final, Session!RunCommands
    <3>5. Replied'
      <4> HIDE DEF Path
      <4> QED
        BY <2>1, <3>1, <3>2, <3>3, <3>4, FramingFlies, ServingKeeps, StatesPrimed
           DEF Replied, Quiet, Running
    <3> QED
      BY <2>1, <3>1, <3>5, FramingFlies DEF SessionState
  <2> QED
    BY <2>2, <2>3
<1> QED
  BY <1>1, <1>2, <1>3, <1>4

(***************************************************************************)
(* GDB asks, and receives.                                                 *)
(***************************************************************************)
LEMMA Asks ==
  ASSUME IInv, SessionInv, NEW k \in Commands, HostAsk(k),
         UNCHANGED <<packetVars, usbVars, serverVars, turn>>
  PROVE  SessionInv'
<1>1. AtRest
  BY DEF HostAsk, SessionInv, SessionState, OnItsWay, Executing, Running, Replied
<1>2. /\ UNCHANGED <<command, response, sendPc, inXfer, serverPc, gdbConnected, targetRunning>>
      /\ Held' = Held /\ ArmedSound' /\ FramedSound' /\ (Flying' <=> Flying)
  BY DEF packetVars, usbVars, recvVars, sendVars, serverVars, sessionVars, Held, ArmedSound,
         FramedSound, Flying, SessionInv
<1>3. hostAsked' = k /\ k # None /\ hostOut' = hostOut \o Packet(k)
  BY LinkAssumption DEF HostAsk
<1>4. Path' = Path \o Packet(k)
  <2>1. \A a, b, c \in Seq(Byte) : (a \o b) \o c = a \o (b \o c)
    BY ConcatAssociative
  <2>2. Packet(k) \in Seq(Byte)
    BY PacketTyped
  <2> HIDE DEF Packet
  <2>3. /\ command.buffer \in Seq(Byte) /\ Coming \in Seq(Byte)
        /\ Held \in Seq(Byte) /\ hostOut \in Seq(Byte)
    BY PathTyped
  <2>4. Coming' = Coming \o Packet(k)
    BY <1>2, <1>3, <2>1, <2>2, <2>3 DEF Coming
  <2>5. (command.buffer \o Coming) \o Packet(k) = command.buffer \o (Coming \o Packet(k))
    <3> DEFINE b == command.buffer
               g == Packet(k)
    <3> HIDE DEF b, g
    <3>1. b \in Seq(Byte) /\ Coming \in Seq(Byte) /\ g \in Seq(Byte)
      BY <2>2, <2>3 DEF b, g
    <3>2. (b \o Coming) \o g = b \o (Coming \o g)
      BY <3>1, ConcatAssociative
    <3> QED
      BY <3>2 DEF b, g
  <2> QED
    BY <1>2, <2>4, <2>5 DEF Path
<1>5. Whole(Path', k)
  BY <1>1, <1>4, PathTyped, WholeAsked DEF AtRest
<1>6. OnItsWay'
  <2> HIDE DEF Path, Whole, Flying
  <2> QED
    BY <1>1, <1>2, <1>3, <1>5, StatesPrimed DEF AtRest, OnItsWay, Quiet
<1> QED
  BY <1>2, <1>6 DEF SessionInv, SessionState

\* The host is not interrupted: it only asks.
LEMMA HostOnlyAsks ==
  ASSUME Uninterrupted, IInv,
         (\E k \in Commands : HostAsk(k)) \/ HostBreak \/ HostRestart
  PROVE  \E k \in Commands : HostAsk(k)
BY DEF Uninterrupted, IInv, TypeOK, HostBreak, HostRestart

\* GDB reads the end of a transfer with bytes in it.
Receives == UsbIn /\ inXfer # 0

LEMMA ReceivedPath ==
  ASSUME IInv, SessionInv, Receives
  PROVE  /\ HostReceive(response)
         /\ UNCHANGED <<command, response, serverPc, gdbConnected, targetRunning>>
         /\ Flying /\ ~Flying' /\ ArmedSound' /\ FramedSound'
         /\ Junk(Coming) => Junk(Coming')
         /\ Junk(Path) => Junk(Path')
<1>1. /\ DataIn /\ HostReceive(response)
      /\ UNCHANGED <<command, response, serverPc, gdbConnected, targetRunning>>
      /\ UNCHANGED <<recvVars, sendPc>>
  BY DEF Receives, UsbIn, DataIn, packetVars, serverVars, sessionVars
<1>2. Flying /\ ~Flying'
  <2>1. inXfer # Idle /\ inXfer # 0 /\ inXfer \in Nat \cup {Idle}
    BY <1>1 DEF DataIn, Receives, IInv, TypeOK, UsbTypeOK
  <2>2. inXfer > 0 /\ sendPc = "wait" /\ ~response.busy
    BY <2>1 DEF IInv, Ownership, Idle
  <2>3. inXfer' = 0 \/ inXfer' = Idle
    BY <1>1 DEF DataIn
  <2> QED
    BY <1>1, <2>2, <2>3 DEF Flying, Idle
<1>3. ArmedSound' /\ FramedSound' /\ Held' = Held
  BY <1>1 DEF SessionInv, ArmedSound, FramedSound, Held, recvVars
<1>4. hostOut' = hostOut \/ hostOut' = Append(hostOut, "+")
  BY <1>1 DEF HostReceive
<1>5. Junk(hostOut) => Junk(hostOut')
  BY <1>4, PathTyped, JunkAppend
<1>6. hostOut' \in Seq(Byte)
  <2>1. "+" \in Byte
    BY DEF Byte
  <2>2. hostOut \in Seq(Byte)
    BY PathTyped
  <2> QED
    BY <1>4, <2>1, <2>2, AppendProperties
<1>7. Junk(Coming) => Junk(Coming')
  BY <1>3, <1>5, <1>6, PathTyped, JunkConcat DEF Coming
<1>8. Coming' \in Seq(Byte)
  BY <1>3, <1>6, PathTyped, ConcatProperties DEF Coming
<1>9. Junk(Path) => Junk(Path')
  BY <1>1, <1>7, <1>8, PathTyped, JunkConcat DEF Path
<1> QED
  BY <1>1, <1>2, <1>3, <1>7, <1>9

\* What comes is console output while a command is executed, or its one final
\* reply.
LEMMA ReceivesEither ==
  ASSUME IInv, SessionInv, Receives
  PROVE  \/ /\ Replied /\ response.body # "O"
         \/ /\ Executing \/ Running
            /\ response.body = "O" /\ hostAsked \in Session!ConsoleCommands /\ hostAsked # None
<1>1. Flying
  BY ReceivedPath
<1>2. CASE Replied
  <2>1. "O" \notin Session!Final(hostAsked)
    BY DEF Session!Final
  <2> QED
    BY <1>2, <2>1 DEF Replied
<1>3. CASE Executing \/ Running
  BY <1>1, <1>3 DEF Executing, Running, OnlyConsole, Monitor, Session!ConsoleCommands,
                    Session!RunCommands
<1> QED
  BY <1>1, <1>2, <1>3 DEF SessionInv, SessionState, AtRest, OnItsWay

LEMMA ReceiveMoves ==
  ASSUME IInv, SessionInv, Receives
  PROVE  SessionInv'
<1>0. /\ HostReceive(response)
      /\ UNCHANGED <<command, response, serverPc, gdbConnected, targetRunning>>
      /\ Flying /\ ~Flying' /\ ArmedSound' /\ FramedSound'
      /\ Junk(Coming) => Junk(Coming)'
      /\ Junk(Path) => Junk(Path)'
  BY ReceivedPath, StatesPrimed
<1> HIDE DEF Flying, Junk, Content, Packet, Path, Coming
<1>1. CASE Replied /\ response.body # "O"
  <2>1. hostAsked' = None
    BY <1>0, <1>1 DEF HostReceive
  <2>2. AtRest'
    BY <1>0, <1>1, <2>1 DEF AtRest, Replied, Quiet
  <2> QED
    BY <1>0, <2>2 DEF SessionInv, SessionState
<1>2. CASE (Executing \/ Running) /\ response.body = "O"
  <2>1. hostAsked' = hostAsked
    BY <1>0, <1>2 DEF HostReceive
  <2>2. CASE Running
    <3>1. Running'
      BY <1>0, <2>1, <2>2 DEF Running, OnlyConsole
    <3> QED
      BY <1>0, <3>1 DEF SessionInv, SessionState
  <2>3. CASE Executing
    <3>1. Executing'
      BY <1>0, <2>1, <2>3, StatesPrimed DEF Executing, Taken, OnlyConsole
    <3> QED
      BY <1>0, <3>1 DEF SessionInv, SessionState
  <2> QED
    BY <1>2, <2>2, <2>3
<1> QED
  BY <1>1, <1>2, ReceivesEither

(***************************************************************************)
(* The system.                                                             *)
(***************************************************************************)
LEMMA InitSession == Init => SessionInv /\ Exact(command) /\ AckInv
<1> SUFFICES ASSUME Init  PROVE SessionInv /\ Exact(command) /\ AckInv
  OBVIOUS
<1>1. /\ command = NoCommand /\ response.busy /\ hostOut = <<>> /\ hostAsked = None
      /\ recvPc = "config" /\ ~received /\ ~outArmed /\ serverPc = "poll" /\ ~gdbConnected
      /\ hostPhase = "none" /\ hostAck = TRUE
  BY DEF Init, PacketInit, InitResponse, UsbInit, ServerInit
<1>2. ~Flying /\ FramedSound /\ ArmedSound
  BY <1>1 DEF Flying, FramedSound, ArmedSound
<1>3. <<>> \o <<>> = <<>> /\ <<>> \o (<<>> \o <<>>) = <<>> /\ Len(<<>>) = 0
  <2>1. <<>> \in Seq(Byte)
    OBVIOUS
  <2> QED
    BY <2>1, ConcatEmptySeq
<1>4. Path = <<>>
  BY <1>1, <1>3 DEF Path, Coming, Held, NoCommand
<1>5. Junk(Path)
  BY <1>3, <1>4 DEF Junk
<1>6. AtRest
  BY <1>1, <1>2, <1>5 DEF AtRest, Quiet, NoCommand
<1>7. AckInv
  <2>1. None # "QStartNoAckMode" \/ ~Flying
    BY <1>2
  <2> QED
    BY <1>1, <1>2 DEF AckInv
<1> QED
  BY <1>1, <1>2, <1>6, <1>7, NoCommandExact DEF SessionInv, SessionState

LEMMA NextSessionInv ==
  ASSUME Uninterrupted, IInv, SessionInv, Exact(command), [Next]_vars
  PROVE  SessionInv'
<1>0. ArmedSound /\ FramedSound /\ SessionState
  BY DEF SessionInv
<1>1. CASE Recv /\ UNCHANGED <<serverVars, hostVars>>
  BY <1>0, <1>1, RecvKeeps, StateKept DEF SessionInv
<1>2. CASE Send /\ UNCHANGED <<serverVars, hostVars>>
  BY <1>0, <1>2, SendKeeps, StateKept DEF SessionInv
<1>3. CASE Serving
  <2>1. SessionState' /\ FramedSound'
    <3>1. CASE Quiet
      BY <1>0, <1>3, <3>1, QuietMoves
    <3>2. CASE Executing
      BY <1>0, <1>3, <3>2, ExecutingMoves
    <3>3. CASE Running
      BY <1>0, <1>3, <3>3, RunningMoves
    <3> QED
      BY <1>0, <3>1, <3>2, <3>3 DEF SessionState, AtRest, OnItsWay, Replied
  <2> QED
    BY <1>0, <1>3, <2>1, ServingKeeps DEF SessionInv
<1>4. CASE UNCHANGED <<command, response, recvVars, sendPc, inXfer, hostVars, serverPc,
                        sessionVars>>
  <2>1. ArmedSound' /\ FramedSound' /\ (Flying' <=> Flying)
    BY <1>0, <1>4 DEF ArmedSound, FramedSound, Flying, recvVars
  <2>2. Coming' = Coming /\ Path' = Path
    BY <1>4 DEF Coming, Path, Held, recvVars, hostVars
  <2>3. Undisturbed
    BY <1>4, <2>1, <2>2 DEF Undisturbed, hostVars, sessionVars
  <2> QED
    BY <1>0, <2>1, <2>3, StateKept DEF SessionInv
<1>5. CASE /\ (\E k \in Commands : HostAsk(k)) \/ HostBreak \/ HostRestart
           /\ UNCHANGED <<packetVars, usbVars, serverVars, turn>>
  BY <1>5, HostOnlyAsks, Asks
<1>6. CASE UsbOut
  BY <1>0, <1>6, UsbOutKeeps, StateKept DEF SessionInv
<1>7. CASE UsbIn
  <2>1. CASE inXfer = 0
    <3>1. UNCHANGED <<command, response, recvVars, sendPc, hostVars, serverPc, sessionVars>>
      BY <1>7, <2>1 DEF UsbIn, DataIn, packetVars, serverVars
    <3>2. sendPc = "wait" /\ inXfer' = Idle
      BY <1>7, <2>1 DEF UsbIn, DataIn, IInv, Ownership, Idle
    <3>3. ~Flying /\ ~Flying'
      BY <2>1, <3>1, <3>2 DEF Flying, Idle
    <3>4. ArmedSound' /\ FramedSound' /\ Coming' = Coming /\ Path' = Path
      BY <1>0, <3>1 DEF ArmedSound, FramedSound, Coming, Path, Held, recvVars, hostVars
    <3>5. Undisturbed
      BY <3>1, <3>3, <3>4 DEF Undisturbed, hostVars, sessionVars
    <3> QED
      BY <1>0, <3>4, <3>5, StateKept DEF SessionInv
  <2> QED
    BY <1>7, <2>1, ReceiveMoves DEF Receives
<1>8. CASE UNCHANGED vars
  BY <1>4, <1>8 DEF vars, packetVars, usbVars, sendVars, serverVars
<1>9. CASE Next
  <2>1. CASE UNCHANGED <<packetVars, usbVars, serverVars, hostVars>>
    BY <1>4, <2>1 DEF packetVars, usbVars, sendVars, serverVars
  <2>2. CASE Configure /\ UNCHANGED <<serverVars, turn, hostVars>>
    BY <1>4, <2>2 DEF Configure, packetVars, sendVars, serverVars
  <2>3. CASE (HartStops \/ TimerExpires) /\ UNCHANGED <<packetVars, usbVars, turn, hostVars>>
    BY <1>4, <2>3 DEF HartStops, TimerExpires, packetVars, usbVars, sendVars
  <2> QED
    BY <1>1, <1>2, <1>3, <1>5, <1>6, <1>7, <1>9, <2>1, <2>2, <2>3, Steps DEF Serving
<1> QED
  BY <1>8, <1>9

SessionInvariant == IInv /\ Exact(command) /\ SessionInv

\* A command goes through its stages one after the other, and the bytes on the
\* way to the server are at every moment those of its stage.
THEOREM SessionInvariance ==
  ASSUME Uninterrupted
  PROVE  Spec => []SessionInvariant
<1>1. Init => SessionInvariant
  BY InitIInv, InitSession DEF SessionInvariant
<1>2. SessionInvariant /\ [Next]_vars => SessionInvariant'
  <2> SUFFICES ASSUME SessionInvariant, [Next]_vars  PROVE SessionInvariant'
    OBVIOUS
  <2>1. IInv' /\ Exact(command') /\ SessionInv'
    BY NextIInv, NextExact, NextSessionInv DEF SessionInvariant
  <2>2. Exact(command') <=> Exact(command)'
    BY DEF Exact
  <2> QED
    BY <2>1, <2>2 DEF SessionInvariant
<1> QED
  BY <1>1, <1>2, PTL DEF Spec

\* What the server executes is the whole of what GDB asked, into whatever pieces
\* USB cut it and whatever lay in the pipe before it.
THEOREM CommandsAreIntact ==
  ASSUME Uninterrupted
  PROVE  Spec => []CommandIntact
<1>1. SessionInvariant => CommandIntact
  <2> SUFFICES ASSUME SessionInvariant, command.busy
               PROVE  Content(command) = SubSeq(Packet(hostAsked), 2, Pad[hostAsked] + 2)
    BY DEF CommandIntact
  <2>1. Executing
    BY DEF SessionInvariant, SessionInv, SessionState, AtRest, OnItsWay, Quiet, Running, Replied
  <2> QED
    BY <2>1 DEF Executing, Taken
<1> QED
  BY <1>1, SessionInvariance, PTL

(***************************************************************************)
(* The promise to GDB.                                                     *)
(***************************************************************************)
LEMMA ReceiveImplements ==
  ASSUME IInv, SessionInv, Receives
  PROVE  Session!Next
<1>1. HostReceive(response)
  BY ReceivedPath
<1>2. CASE Replied /\ response.body # "O"
  <2>1. Session!Reply(response.body) /\ response.body \in Session!Final(hostAsked)
    BY <1>1, <1>2 DEF HostReceive, Replied, Session!Reply
  <2> QED
    BY <1>2, <2>1 DEF Replied, Session!Next
<1>3. CASE response.body = "O" /\ hostAsked \in Session!ConsoleCommands
  <2>1. Session!Output
    BY <1>1, <1>3 DEF HostReceive, Session!Output
  <2> QED
    BY <2>1 DEF Session!Next
<1> QED
  BY <1>2, <1>3, ReceivesEither

LEMMA StepImplements ==
  ASSUME Uninterrupted, IInv, SessionInv, [Next]_vars
  PROVE  Session!Next \/ UNCHANGED <<hostAsked, hostGot>>
<1>1. CASE UNCHANGED hostVars
  BY <1>1 DEF hostVars
<1>2. CASE \E k \in Commands : HostAsk(k)
  <2>1. PICK k \in Commands : HostAsk(k)
    BY <1>2
  <2>2. Session!Ask(k)
    BY <2>1 DEF HostAsk, Session!Ask
  <2> QED
    BY <2>2 DEF Session!Next
<1>3. CASE UsbOut
  BY <1>3 DEF UsbOut
<1>4. CASE UsbIn
  <2>1. CASE inXfer = 0
    BY <1>1, <1>4, <2>1 DEF UsbIn
  <2> QED
    BY <1>4, <2>1, ReceiveImplements DEF Receives
<1>5. CASE UNCHANGED vars
  BY <1>1, <1>5 DEF vars
<1>6. CASE Next
  BY <1>1, <1>2, <1>3, <1>4, <1>6, Steps, HostOnlyAsks
<1> QED
  BY <1>5, <1>6

\* The probe implements RspSession: GDB gets one final reply, of a kind the
\* protocol allows, for every command, and nothing else but console output while
\* the command is executed.
THEOREM SessionRefined ==
  ASSUME Uninterrupted
  PROVE  Spec => SessionSpec
<1>1. Init => Session!Init
  BY DEF Init, Session!Init
<1>2. SessionInvariant /\ [Next]_vars => [Session!Next]_<<hostAsked, hostGot>>
  BY StepImplements DEF SessionInvariant
<1> QED
  BY <1>1, <1>2, SessionInvariance, PTL DEF Spec, SessionSpec, Session!Spec

(***************************************************************************)
(* The acknowledgement mode.                                               *)
(***************************************************************************)
\* Which reply the server may write, by what GDB asked.
LEMMA ServerWrites ==
  ASSUME IInv, SessionInv, Exact(command), Serving
  PROVE  \/ response' = response
         \/ /\ response.busy
            /\ \/ /\ hostAsked \notin {None, "qSupported", "QStartNoAckMode"}
                  /\ \E r \in Replies : response' = Respond(response, r)
               \/ /\ hostAsked = "qSupported" /\ hostAsked # None
                  /\ response' = Respond([response EXCEPT !.noAck = FALSE], "data")
               \/ /\ hostAsked = "QStartNoAckMode" /\ hostAsked # None
                  /\ response' = [Respond(response, "OK") EXCEPT !.noAck = TRUE]
<1>1. CASE Quiet
  BY <1>1, CommandQuiet DEF CmdNone, CmdTake
<1>2. CASE Executing
  <2>1. Current = hostAsked /\ hostAsked # None
    BY <1>2 DEF Executing, Taken, Current
  <2>2. Dispatch \/ RcmdAfterFlush \/ RcmdShown \/ RcmdResetDone
    BY <1>2 DEF Serving, Executing, ServerPoll, RunConsole, RunIdle, RunBreak, RunDrop, RunPoll,
                CmdTake, CmdNone, CmdPoll
  <2>3. CASE Rcmd /\ response.busy
    BY <2>1, <2>3 DEF Rcmd, RcmdReset, RcmdShow, RcmdVcom, RcmdHalt, RcmdUnsupported, Answer,
                      ResponseDone, packetVars, Replies
  <2>4. CASE RcmdAfterFlush
    BY <2>3, <2>4 DEF RcmdAfterFlush
  <2>5. CASE RcmdShown \/ RcmdResetDone
    <3>1. hostAsked \in {"show", "reset"} /\ response.busy /\ Answer("OK")
      BY <1>2, <2>5 DEF RcmdShown, RcmdResetDone, Executing, IInv, Ownership
    <3> QED
      BY <2>1, <3>1 DEF Answer, ResponseDone, Replies
  <2>6. CASE Dispatch
    <3>1. response.busy
      BY <2>6 DEF Dispatch
    <3>2. CASE CmdqSupported \/ CmdQ
      BY <2>1, <3>1, <3>2 DEF CmdqSupported, CmdQ
    <3>3. CASE CmdqRcmd
      BY <2>1, <2>3, <3>1, <3>3 DEF CmdqRcmd, RcmdFlush, ResponseDone, Monitor, Replies
    <3>4. CASE CmdResume
      BY <3>4 DEF CmdResume
    <3>5. CASE CmdKill \/ CmdFlash \/ CmdvMustReplyEmpty
      BY <2>1, <3>1, <3>5 DEF CmdKill, CmdFlash, CmdvMustReplyEmpty, Answer, ResponseDone, Replies
    <3>6. CASE CmdqXfer \/ CmdH \/ CmdQuestionMark \/ CmdRead \/ CmdWrite
                 \/ CmdBreakpoint \/ CmdFlashDone \/ CmdOther
      BY <2>1, <3>1, <3>6 DEF CmdqXfer, CmdH, CmdQuestionMark, CmdRead, CmdWrite, CmdBreakpoint,
                      CmdFlashDone, CmdOther, Known, Answer, ResponseDone, Replies
    <3> QED
      BY <2>6, <3>2, <3>3, <3>4, <3>5, <3>6 DEF Dispatch
  <2> QED
    BY <2>2, <2>4, <2>5, <2>6
<1>3. CASE Running
  <2>1. ~CommandFound /\ hostAsked \notin {None, "qSupported", "QStartNoAckMode"}
    BY <1>3, NothingInJunk DEF Running
  <2>2. RunConsole \/ RunIdle \/ CmdNone
    BY <1>3, <2>1 DEF Serving, Running, ServerPoll, RunBreak, BreakFound, RunDrop, CmdTake,
                      Dispatch, RcmdAfterFlush, RcmdShown, RcmdResetDone
  <2>3. CASE RunConsole
    BY <2>1, <2>3 DEF RunConsole, ResponseDone, IInv, Ownership, Replies
  <2>4. CASE RunIdle
    BY <2>1, <2>4 DEF RunIdle, RunPoll, HaltCheck, ResponseDone, IInv, Ownership, Replies
  <2>5. CASE CmdNone
    BY <2>5 DEF CmdNone
  <2> QED
    BY <2>2, <2>3, <2>4, <2>5
<1> QED
  BY <1>1, <1>2, <1>3 DEF SessionInv, SessionState, AtRest, OnItsWay, Replied

LEMMA ServerAcks ==
  ASSUME IInv, SessionInv, Exact(command), AckInv, Serving
  PROVE  AckInv'
<1>0. UNCHANGED <<hostAsked, hostPhase, hostAck, sendPc, inXfer>> /\ response \in ResponseType
  BY ServingKeeps, ResponseTyped
<1>1. CASE response' = response
  BY <1>0, <1>1 DEF AckInv, Flying
<1>2. CASE response.busy /\ response' # response
  <2>1. ~Flying
    BY <1>2 DEF Flying
  <2>2. CASE /\ hostAsked \notin {None, "qSupported", "QStartNoAckMode"}
             /\ \E r \in Replies : response' = Respond(response, r)
    <3>1. response'.ack = ~response.noAck /\ response'.noAck = response.noAck
      BY <1>0, <2>2, RespondFrames
    <3>2. hostPhase # "none" /\ response.noAck = ~hostAck
      BY <2>1, <2>2 DEF AckInv
    <3> QED
      BY <1>0, <2>2, <3>1, <3>2 DEF AckInv, IInv, TypeOK
  <2>3. CASE /\ hostAsked = "qSupported" /\ hostAsked # None
             /\ response' = Respond([response EXCEPT !.noAck = FALSE], "data")
    <3>1. [response EXCEPT !.noAck = FALSE] \in ResponseType
      BY <1>0 DEF ResponseType
    <3>2. response'.ack = TRUE /\ response'.noAck = FALSE
      BY <1>0, <2>3, <3>1, RespondFrames DEF Replies, ResponseType
    <3> QED
      BY <1>0, <2>3, <3>2 DEF AckInv
  <2>4. CASE /\ hostAsked = "QStartNoAckMode" /\ hostAsked # None
             /\ response' = [Respond(response, "OK") EXCEPT !.noAck = TRUE]
    <3>1. /\ Respond(response, "OK") \in ResponseType
          /\ Respond(response, "OK").ack = ~response.noAck
          /\ ~Respond(response, "OK").busy
      BY <1>0, RespondFrames DEF Replies, Framing
    <3>2. response'.ack = ~response.noAck /\ response'.noAck = TRUE /\ ~response'.busy
      BY <2>4, <3>1 DEF ResponseType
    <3>3. hostPhase # "none" /\ response.noAck = ~hostAck /\ sendPc # "wait"
      BY <1>2, <2>1, <2>4 DEF AckInv, IInv, Ownership
    <3>4. Flying'
      BY <1>0, <3>2, <3>3 DEF Flying
    <3> HIDE DEF Flying
    <3> QED
      BY <1>0, <2>4, <3>2, <3>3, <3>4 DEF AckInv, IInv, TypeOK
  <2> QED
    BY <1>2, <2>2, <2>3, <2>4, ServerWrites
<1> QED
  BY <1>1, <1>2, ServerWrites

LEMMA HostAcks ==
  ASSUME IInv, SessionInv, AckInv, NEW k \in Commands, HostAsk(k), UNCHANGED <<packetVars, usbVars>>
  PROVE  AckInv'
<1>1. ~Flying
  BY DEF HostAsk, SessionInv, SessionState, AtRest, OnItsWay, Executing, Running, Replied
<1>2. ~Flying' /\ response' = response /\ UNCHANGED <<hostPhase, hostAck>> /\ hostAsked' = k
  BY <1>1 DEF HostAsk, Flying, packetVars, usbVars, sendVars
<1>3. (hostPhase = "none" => k = "qSupported") /\ (hostPhase # "none" => k # "qSupported")
  BY DEF HostAsk, Allowed, IInv, TypeOK
<1> HIDE DEF Flying
<1> QED
  BY <1>1, <1>2, <1>3 DEF AckInv

LEMMA ReceiveAcks ==
  ASSUME IInv, SessionInv, AckInv, Receives
  PROVE  AckInv'
<1>1. Flying /\ ~Flying' /\ HostReceive(response) /\ response' = response
  BY ReceivedPath
<1> HIDE DEF Flying
<1>2. CASE /\ response.body = "O" /\ hostAsked \in Session!ConsoleCommands
  <2>1. UNCHANGED <<hostAsked, hostPhase, hostAck>>
    BY <1>1, <1>2 DEF HostReceive
  <2>2. hostAsked # "QStartNoAckMode"
    BY <1>2 DEF Session!ConsoleCommands, Session!RunCommands
  <2> QED
    BY <1>1, <2>1, <2>2 DEF AckInv
<1>3. CASE response.body # "O"
  <2>1. /\ hostAsked' = None
        /\ hostAck' = IF hostPhase' = "none" THEN TRUE
                      ELSE hostAck /\ hostAsked # "QStartNoAckMode"
    BY <1>1, <1>3 DEF HostReceive
  <2>2. None # "qSupported"
    BY LinkAssumption
  <2>3. hostAck \in BOOLEAN /\ response.noAck \in BOOLEAN
    BY ResponseTyped DEF IInv, TypeOK, ResponseType
  <2>4. CASE hostAsked = "QStartNoAckMode"
    BY <1>1, <2>1, <2>2, <2>4 DEF AckInv
  <2>5. CASE hostAsked # "QStartNoAckMode"
    <3>1. response.noAck = ~hostAck
      BY <1>1, <2>5 DEF AckInv
    <3> QED
      BY <1>1, <2>1, <2>2, <2>3, <2>5, <3>1 DEF AckInv
  <2> QED
    BY <2>4, <2>5
<1> QED
  BY <1>2, <1>3, ReceivesEither

LEMMA NextAckInv ==
  ASSUME Uninterrupted, SessionInvariant, AckInv, [Next]_vars
  PROVE  AckInv'
<1>0. IInv /\ SessionInv /\ Exact(command)
  BY DEF SessionInvariant
<1>1. CASE /\ UNCHANGED <<hostAsked, hostPhase, hostAck>>
           /\ Flying' <=> Flying
           /\ response'.noAck = response.noAck /\ response'.ack = response.ack
  BY <1>1 DEF AckInv
<1>2. CASE UNCHANGED <<response, sendPc, inXfer, hostVars>>
  BY <1>1, <1>2 DEF Flying, hostVars
<1>3. CASE Recv /\ UNCHANGED hostVars
  BY <1>2, <1>3 DEF Recv, sendVars
<1>4. CASE Send /\ UNCHANGED <<serverVars, hostVars>>
  <2>1. Flying' <=> Flying
    BY <1>0, <1>4, SendKeeps DEF SessionInv, Undisturbed
  <2>2. response'.noAck = response.noAck /\ response'.ack = response.ack
    <3>1. response' = response \/ response' = [response EXCEPT !.busy = TRUE, !.len = 0]
      BY <1>4 DEF Send, SendConfigured, SendGet, SendClear, SendSubmit, SendRelease, ReleaseResponse
    <3> QED
      BY <1>0, <3>1, ResponseTyped DEF ResponseType
  <2> QED
    BY <1>1, <1>4, <2>1, <2>2 DEF hostVars
<1>5. CASE Serving
  BY <1>0, <1>5, ServerAcks
<1>6. CASE /\ (\E k \in Commands : HostAsk(k)) \/ HostBreak \/ HostRestart
           /\ UNCHANGED <<packetVars, usbVars, serverVars, turn>>
  BY <1>0, <1>6, HostOnlyAsks, HostAcks
<1>7. CASE UsbOut
  BY <1>1, <1>7 DEF UsbOut, DataOut, packetVars, sendVars, Flying
<1>8. CASE UsbIn
  <2>1. CASE inXfer = 0
    <3>1. /\ UNCHANGED <<response, sendPc, hostVars>> /\ inXfer' = Idle /\ sendPc = "wait"
      BY <1>0, <1>8, <2>1 DEF UsbIn, DataIn, packetVars, IInv, Ownership, Idle
    <3>2. ~Flying /\ ~Flying'
      BY <2>1, <3>1 DEF Flying, Idle
    <3> QED
      BY <1>1, <3>1, <3>2 DEF hostVars
  <2> QED
    BY <1>0, <1>8, <2>1, ReceiveAcks DEF Receives
<1>9. CASE UNCHANGED vars
  BY <1>2, <1>9 DEF vars, packetVars, usbVars, sendVars
<1>10. CASE Next
  <2>1. CASE UNCHANGED <<packetVars, usbVars, hostVars>>
    BY <1>2, <2>1 DEF packetVars, usbVars, sendVars
  <2>2. CASE Configure /\ UNCHANGED <<serverVars, turn, hostVars>>
    BY <1>2, <2>2 DEF Configure, packetVars, sendVars
  <2> QED
    BY <1>3, <1>4, <1>5, <1>6, <1>7, <1>8, <1>10, <2>1, <2>2, Steps DEF Serving
<1> QED
  BY <1>9, <1>10

\* A reply comes with a "+" exactly when GDB expects one: the two ends change
\* the mode at the same packet, whatever is asked between.
THEOREM AcksAgree ==
  ASSUME Uninterrupted
  PROVE  Spec => AckAgrees
<1>1. Init => AckInv
  BY InitSession
<1>2. SessionInvariant /\ AckInv /\ [Next]_vars => AckInv'
  BY NextAckInv
<1>3. SessionInvariant /\ AckInv => (inXfer > 0 => response.ack = hostAck)
  <2> SUFFICES ASSUME SessionInvariant, AckInv, inXfer > 0  PROVE response.ack = hostAck
    OBVIOUS
  <2>1. inXfer # Idle
    BY DEF Idle
  <2>2. Flying
    BY <2>1 DEF SessionInvariant, IInv, Ownership, Flying
  <2> QED
    BY <2>2 DEF AckInv
<1>4. SessionInvariant /\ AckInv /\ [Next]_vars =>
        [inXfer > 0 /\ inXfer' # inXfer => response.ack = hostAck]_vars
  BY <1>3
<1> QED
  BY <1>1, <1>2, <1>4, SessionInvariance, PTL DEF Spec, AckAgrees
=============================================================================
