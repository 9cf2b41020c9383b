------------------------------ MODULE TkPackets -----------------------------
(***************************************************************************)
(* The data link of the tk and dp drivers: a program (drivers/tk.c) writes *)
(* its plot commands into a buffer and sends the buffer as a packet        *)
(* (pl_PacketSend of bindings/tk/tcpip.c) over a fifo or a socket to       *)
(* plserver, whose event loop (ReadData of bindings/tk/plframe.c) takes it *)
(* apart again (pl_PacketReceive).  Bytes arrive in pieces, the program    *)
(* may die at any point, and plserver puts back what it cannot use yet.    *)
(* Both ends block, as neither opens its end with O_NONBLOCK.              *)
(***************************************************************************)
EXTENDS Naturals, Sequences

CONSTANTS
  Links,        \* of {"fifo", "socket"}: the tk driver's and the dp driver's
  HeaderSize,   \* 8
  BufMax,       \* pls->bufmax
  Sizes,        \* of commands, in bytes
  PipeBuf,      \* a write to a fifo of so many bytes is atomic
  PipeSize,     \* what the kernel holds
  MaxCommands   \* bound on the commands of the program

ASSUME LinkAssumption ==
  /\ Links \subseteq {"fifo", "socket"}
  /\ {HeaderSize, PipeBuf, PipeSize} \subseteq Nat \ {0}
  /\ Sizes \subseteq Nat \ {0}
  /\ BufMax \in Nat /\ MaxCommands \in Nat
  /\ PipeBuf <= PipeSize

VARIABLES
  link,       \* iodev->typeName, the same at both ends
  (* the program *)
  commands,   \* the sizes of the commands so far
  buffer,     \* pdfs->buffer up to bp
  loose,      \* how many bytes of it were written since bp was compared with bufmax
  client,     \* "run", "write": in write(), "dead"
  unsent,     \* what write() has not taken yet
  atomic,     \* write() takes it at once
  (* the kernel *)
  pipe,
  (* plserver *)
  server,     \* "loop", "body": between the two reads, "closed"
  partial,    \* partial[ fd ], its chain of buffers put together
  hbuf,       \* the header read last
  garbled,    \* "badly formatted packet" was reported
  (* what was given to the link and what came out of it *)
  sent, arrived

program == << commands, buffer, loose, client, unsent, atomic, sent >>
plserver == << server, partial, hbuf, garbled, arrived >>
vars == << link, program, pipe, plserver >>

\* The bytes of command c, and of the header of a packet of n bytes.
Bytes(c, n) == [k \in 1..n |-> << 0, c, k >>]
Header(n)   == [k \in 1..HeaderSize |-> << n, 0, k >>]

Init ==
  /\ link \in Links
  /\ commands = << >> /\ buffer = << >> /\ loose = 0
  /\ client = "run" /\ unsent = << >> /\ atomic = FALSE
  /\ pipe = << >>
  /\ server = "loop" /\ partial = << >> /\ hbuf = << >> /\ garbled = FALSE
  /\ sent = << >> /\ arrived = << >>

-----------------------------------------------------------------------------
(* The program.                                                            *)

\* flush_output and pl_PacketSend up to its write().
FlushOutput(body) ==
  IF body = << >>
  THEN UNCHANGED << buffer, loose, client, unsent, atomic, sent >>
  ELSE /\ client' = "write"
       /\ unsent' = Header(Len(body)) \o body
       /\ atomic' = (link = "fifo" /\ HeaderSize + Len(body) <= PipeBuf)
       /\ sent' = Append(sent, body)
       /\ buffer' = << >> /\ loose' = 0

\* One more command, of n bytes, and the buffer with it.
Add(n) ==
  /\ client = "run" /\ Len(commands) < MaxCommands
  /\ commands' = Append(commands, n)
  /\ UNCHANGED << link, pipe, plserver >>
Written(n) == buffer \o Bytes(Len(commands) + 1, n)
Kept(whole, more) ==
  /\ buffer' = whole /\ loose' = more
  /\ UNCHANGED << client, unsent, atomic, sent >>

\* Wrong: the limit is looked at before the command is written.
DrawLimitBefore ==
  \E n \in Sizes :
    /\ Add(n)
    /\ IF Len(buffer) > BufMax THEN FlushOutput(Written(n)) ELSE Kept(Written(n), 0)

\* Wrong: a packet has no more than so many bytes.
DrawCutShort ==
  \E n \in Sizes :
    /\ Add(n)
    /\ IF Len(Written(n)) > BufMax
       THEN FlushOutput(SubSeq(Written(n), 1, BufMax + 1))
       ELSE Kept(Written(n), 0)

\* plD_line_tk, plD_polyline_tk and plD_state_tk: they send a full buffer.
Draw ==
  \E n \in Sizes :
    /\ Add(n)
    /\ IF Len(Written(n)) > BufMax THEN FlushOutput(Written(n)) ELSE Kept(Written(n), 0)

\* plD_eop_tk and the escapes PLESC_FLUSH, which GetCursor begins with, and
\* PLESC_DI: they always send it.
EndOfPage == \E n \in Sizes : Add(n) /\ FlushOutput(Written(n))

\* plD_bop_tk, the fills and the other escapes: they never look at the limit,
\* and pdfs grows its memory.
Escape == \E n \in Sizes : Add(n) /\ Kept(Written(n), loose + n)

\* The flush that ends plD_init_tk, whose colour maps may have been sent.
Flush ==
  /\ client = "run"
  /\ FlushOutput(buffer)
  /\ UNCHANGED << link, commands, pipe, plserver >>

\* The kernel takes a piece of the packet, all of it from a short write.
Write ==
  /\ client = "write"
  /\ \E n \in 1..Len(unsent) :
       /\ Len(pipe) + n <= PipeSize
       /\ atomic => n = Len(unsent)
       /\ pipe' = pipe \o SubSeq(unsent, 1, n)
       /\ unsent' = SubSeq(unsent, n + 1, Len(unsent))
       /\ client' = IF n = Len(unsent) THEN "run" ELSE "write"
  /\ UNCHANGED << link, commands, buffer, loose, atomic, sent, plserver >>

\* The program ends or is killed, its buffer and a write() with it.
Die ==
  /\ client # "dead"
  /\ client' = "dead"
  /\ UNCHANGED << link, commands, buffer, loose, unsent, atomic, sent, pipe, plserver >>

-----------------------------------------------------------------------------
(* pl_Read and pl_Unread.                                                  *)

Least(m, n) == IF m <= n THEN m ELSE n
Readable == pipe # << >> \/ client = "dead"

\* Wrong: all that has come is read, and what is too much is put back.
PlReadAhead(n) ==
  LET all == partial \o pipe
      got == Least(n, Len(all))
  IN  [bytes |-> SubSeq(all, 1, got), partial |-> SubSeq(all, got + 1, Len(all)), pipe |-> << >>]

\* What was put back comes first, and only then and only for the rest one
\* read(): it blocks until there is a byte or, at the end, gives none.
PlRead(n) ==
  LET old == Least(n, Len(partial))
      new == Least(n - old, Len(pipe))
  IN  [bytes |-> SubSeq(partial, 1, old) \o SubSeq(pipe, 1, new),
       partial |-> SubSeq(partial, old + 1, Len(partial)),
       pipe |-> SubSeq(pipe, new + 1, Len(pipe))]
Blocks(n) == Len(partial) < n /\ ~ Readable

-----------------------------------------------------------------------------
(* plserver: pl_PacketReceive, called by ReadData when the link is         *)
(* readable.                                                               *)

\* readError after a read() of no bytes, which nothing put back went before.
\* errno is what some earlier call of the process left: were it EAGAIN,
\* nothing is done.  A socket is not closed here, nor its handler deleted.
ReadError ==
  /\ server' \in {"loop", IF link = "fifo" THEN "closed" ELSE "loop"}
  /\ partial' = << >>

\* Wrong: a part of a header is dropped.
ReceiveHeaderDropping ==
  /\ server = "loop" /\ Readable
  /\ LET got == PlRead(HeaderSize)
     IN  /\ pipe' = got.pipe
         /\ IF got.bytes = << >> THEN ReadError /\ UNCHANGED << hbuf, garbled >>
            ELSE IF Len(got.bytes) < HeaderSize
            THEN /\ partial' = got.partial
                 /\ UNCHANGED << server, hbuf, garbled >>
            ELSE /\ hbuf' = got.bytes
                 /\ partial' = got.partial
                 /\ garbled' = (garbled \/ got.bytes # Header(got.bytes[1][1]))
                 /\ server' = IF got.bytes = Header(got.bytes[1][1]) THEN "body" ELSE "loop"
  /\ UNCHANGED << link, program, arrived >>

\* The first read: no bytes, a part of a header, no header, or a header.
ReceiveHeader ==
  /\ server = "loop" /\ Readable
  /\ LET got == PlRead(HeaderSize)
     IN  /\ pipe' = got.pipe
         /\ IF got.bytes = << >> THEN ReadError /\ UNCHANGED << hbuf, garbled >>
            ELSE IF Len(got.bytes) < HeaderSize
            THEN /\ partial' = got.bytes \o got.partial
                 /\ UNCHANGED << server, hbuf, garbled >>
            ELSE /\ hbuf' = got.bytes
                 /\ partial' = got.partial
                 /\ garbled' = (garbled \/ got.bytes # Header(got.bytes[1][1]))
                 /\ server' = IF got.bytes = Header(got.bytes[1][1]) THEN "body" ELSE "loop"
  /\ UNCHANGED << link, program, arrived >>

PutBack(got) == partial' = hbuf \o got.bytes \o got.partial

packetLen == hbuf[1][1]

\* The second read, of a socket only when there is something to read: no
\* bytes, a part of the packet, or the packet, which plr_process then reads.
ReceiveBody ==
  /\ server = "body"
  /\ IF link = "socket" /\ ~ Readable
     THEN /\ partial' = hbuf \o partial
          /\ server' = "loop"
          /\ UNCHANGED << pipe, arrived >>
     ELSE LET got == PlRead(packetLen)
          IN  /\ ~ Blocks(packetLen)
              /\ pipe' = got.pipe
              /\ IF got.bytes = << >> THEN ReadError /\ UNCHANGED arrived
                 ELSE IF Len(got.bytes) < packetLen
                 THEN server' = "loop" /\ PutBack(got) /\ UNCHANGED arrived
                 ELSE /\ server' = "loop" /\ partial' = got.partial
                      /\ arrived' = Append(arrived, got.bytes)
  /\ UNCHANGED << link, program, hbuf, garbled >>

-----------------------------------------------------------------------------
Client == Draw \/ EndOfPage \/ Escape \/ Flush \/ Write \/ Die
Server == ReceiveHeader \/ ReceiveBody
Next == Client \/ Server

Spec == Init /\ [][Next]_vars /\ WF_vars(Server)
-----------------------------------------------------------------------------
(* Properties.                                                             *)

Byte == Nat \X Nat \X Nat

\* The buffer is over the limit by no more than fills, escapes and page
\* beginnings put there since the last line, polyline or change of state.
TypeOK ==
  /\ commands \in Seq(Sizes) /\ Len(commands) <= MaxCommands
  /\ buffer \in Seq(Byte) /\ loose \in 0..Len(buffer) /\ Len(buffer) - loose <= BufMax
  /\ client \in {"run", "write", "dead"} /\ atomic \in BOOLEAN
  /\ unsent \in Seq(Byte) /\ (client = "write" => unsent # << >>)
  /\ pipe \in Seq(Byte) /\ Len(pipe) <= PipeSize
  /\ server \in {"loop", "body", "closed"}
  /\ partial \in Seq(Byte) /\ hbuf \in Seq(Byte) /\ garbled \in BOOLEAN
  /\ sent \in Seq(Seq(Byte)) /\ arrived \in Seq(Seq(Byte))

\* plr_process may rush blindly ahead: no packet is badly formatted, and each
\* begins and ends with a command.
CommandsWhole ==
  /\ ~ garbled
  /\ \A i \in DOMAIN arrived :
       LET last == arrived[i][Len(arrived[i])]
       IN  arrived[i][1][3] = 1 /\ last[3] = commands[last[2]]

\* ReadData comes when there is something new to read: what was put back must
\* never be a whole packet, which would lie there until the next one comes.  And
\* the link is closed when the program is dead and all it had sent is processed,
\* not before.
NothingStranded ==
  /\ client = "run" /\ pipe = << >> /\ server = "loop" => partial = << >> /\ arrived = sent
  /\ server = "closed" => client = "dead" /\ pipe = << >> /\ (unsent = << >> => arrived = sent)

Channel == INSTANCE TkChannel WITH
  Packet <- Seq(Byte),
  taken  <- IF unsent = << >> THEN Len(sent) ELSE Len(sent) - 1,
  alive  <- client # "dead"

\* The link is the channel that TkChannel promises: no packet is lost, repeated,
\* reordered or put together wrongly, however the bytes come, and what the program
\* has sent before it dies arrives.
ImplementsChannel == Channel!Spec
=============================================================================
