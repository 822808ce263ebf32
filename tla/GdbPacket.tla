----------------------------- MODULE GdbPacket -----------------------------
(***************************************************************************)
(* gdb-packet.c: the two pipes between the USB serial port and the GDB     *)
(* server.  The command pipe collects the raw bytes of the host and finds  *)
(* the packet in them; the response pipe is one buffer that the server and *)
(* the USB side own in turn.                                               *)
(*                                                                         *)
(* A byte is "$", "#", "^C" (0x03), "+", a checksum digit "x", a filler    *)
(* data byte "d", or the name of a command, which stands for the bytes     *)
(* that identify it.  Payloads contain no "$" and no "#": GDB escapes      *)
(* both in binary data.  A reply is its kind and its length.               *)
(***************************************************************************)
EXTENDS Integers, Sequences

CONSTANTS
  Commands,    \* the commands the host may send
  Cap,         \* sizeof(command.buffer)
  ReplyLen     \* for every reply kind, its length without framing

Replies == {"O", "OK", "empty", "err", "data", "S02", "T02", "T05", "text"}

Byte == Commands \cup {"$", "#", "^C", "+", "x", "d"}

ASSUME PacketAssumption ==
  /\ Commands \cap {"$", "#", "^C", "+", "x", "d"} = {}
  /\ Cap \in Nat \ {0}
  /\ ReplyLen \in [Replies -> Nat]

VARIABLES
  command,     \* gdb_serial_command_i
  response     \* gdb_serial_response_i

packetVars == <<command, response>>

(***************************************************************************)
(* The command pipe.  Len(buffer) is total_len; indices are the C ones,    *)
(* counted from 0, and -1 means not found.                                 *)
(***************************************************************************)
\* first is the byte at the pointer gdb_packet_command_buffer() returned.
CommandType ==
  [buffer : Seq(Byte), dollar : Int, sharp : Int, scan : Nat,
   cmdLen : Int, first : Byte, busy : BOOLEAN]

NoCommand ==
  [buffer |-> <<>>, dollar |-> -1, sharp |-> -1, scan |-> 0,
   cmdLen |-> 0, first |-> "x", busy |-> FALSE]

\* The first index at or after from that holds x.
FirstFrom(b, x, from) ==
  LET hits == {i \in from .. (Len(b) - 1) : b[i + 1] = x}
  IN  IF hits = {} THEN -1 ELSE CHOOSE i \in hits : \A j \in hits : i <= j

\* The loop of gdb_packet_command_buffer: it resumes at index_scan and
\* looks at what arrived since the last call only.
Scan(c) ==
  [c EXCEPT
     !.dollar = IF @ = -1 THEN FirstFrom(c.buffer, "$", c.scan) ELSE @,
     !.sharp  = IF @ = -1 THEN FirstFrom(c.buffer, "#", c.scan) ELSE @,
     !.scan   = Len(c.buffer)]

Framed(c) == c.dollar >= 0 /\ c.sharp > 0

\* Mutation: a Ctrl-C counts only when it was not scanned before.
IsBreakUnscanned(c) == ~Framed(c) /\ c.buffer = <<"^C">> /\ c.scan = 0

IsBreak(c) == ~Framed(c) /\ c.buffer = <<"^C">>

\* gdb_packet_command_buffer() returns a command, not NULL.
CommandFound == LET s == Scan(command) IN Framed(s) \/ IsBreak(s)

\* What it leaves in the pipe when it returns NULL, and when it does not.
NothingFound == command' = Scan(command)

\* A "#" left over from before the "$" also makes a frame: its length is
\* negative, and when the "$" is the last byte so far, what follows it is a
\* byte of an earlier command.
TakeCommand ==
  LET s == Scan(command)
  IN  IF Framed(s)
        THEN \E b \in IF s.dollar + 2 <= Len(s.buffer) THEN {s.buffer[s.dollar + 2]}
                                                     ELSE Byte :
               command' = [s EXCEPT !.busy = TRUE, !.first = b,
                                    !.cmdLen = s.sharp - s.dollar - 1]
        ELSE command' = [s EXCEPT !.busy = TRUE, !.first = "^C", !.cmdLen = 1]

\* The bytes of the command that was found.
Content(c) ==
  IF Framed(c) THEN SubSeq(c.buffer, c.dollar + 2, c.sharp) ELSE c.buffer

\* gdb_packet_process_command(): TRUE exactly when it takes the bytes.
CommandAccepts(bytes) ==
  /\ ~command.busy
  /\ Cap - Len(command.buffer) >= Len(bytes)

ProcessCommand(bytes) ==
  /\ CommandAccepts(bytes)
  /\ command' = [command EXCEPT !.buffer = @ \o bytes]

\* Mutations: one field is forgotten, or set like its neighbours.
CommandDoneKeepsSharp == command' = [NoCommand EXCEPT !.sharp = command.sharp]
CommandDoneKeepsScan == command' = [NoCommand EXCEPT !.scan = command.scan]
CommandDoneUnsetsScan == command' = [NoCommand EXCEPT !.scan = -1]
CommandDoneKeepsBytes == command' = [NoCommand EXCEPT !.buffer = command.buffer]

\* gdb_packet_command_done() drops whatever is in the pipe.
CommandDone == command' = NoCommand

(***************************************************************************)
(* The response pipe.  busy: the server owns the buffer.                   *)
(***************************************************************************)
ResponseType ==
  [busy : BOOLEAN, noAck : BOOLEAN, body : Replies, ack : BOOLEAN, len : Nat]

InitResponse ==
  [busy |-> TRUE, noAck |-> FALSE, body |-> "empty", ack |-> FALSE, len |-> 0]

\* gdb_packet_response_done(): frames r and hands the buffer over.  ack says
\* whether the frame starts with a "+"; len is total_len with its framing.
Respond(resp, r) ==
  [resp EXCEPT !.busy = FALSE, !.body = r, !.ack = ~resp.noAck,
               !.len = ReplyLen[r] + (IF resp.noAck THEN 1 ELSE 2) + 3]

ResponseDone(r) == response' = Respond(response, r)

\* gdb_packet_get_response() returns a response, not NULL.
ResponseReady == ~response.busy

\* Mutation: the buffer is not given back.
ReleaseResponseHalf == response' = [response EXCEPT !.len = 0]

ReleaseResponse == response' = [response EXCEPT !.busy = TRUE, !.len = 0]

PacketInit ==
  /\ command = NoCommand
  /\ response = InitResponse

PacketTypeOK ==
  /\ command \in CommandType
  /\ response \in ResponseType
=============================================================================
