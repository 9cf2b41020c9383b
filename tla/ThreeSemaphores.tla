-------------------------- MODULE ThreeSemaphores --------------------------
(***************************************************************************)
(* Three-semaphore transfer of byte strings through a limited area of      *)
(* shared memory: PLMemoryMap::transmitBytes and PLMemoryMap::receiveBytes *)
(* of drivers/wxwidgets_comms.cpp, as the wxwidgets device and the         *)
(* wxPLViewer process call them.  Every semaphore operation and every      *)
(* access to the shared memory is a step of its own.                       *)
(***************************************************************************)
EXTENDS Naturals, Sequences

CONSTANTS Device, Viewer, Byte, Payload,
          SharedArraySize   \* PL_SHARED_ARRAY_SIZE, the data area's bytes

ASSUME ThreeSemAssumption ==
  /\ Device # Viewer
  /\ Payload \subseteq Seq(Byte)
  /\ << >> \in Payload
  /\ SharedArraySize \in Nat \ {0}

Proc     == {Device, Viewer}
Other(p) == IF p = Device THEN Viewer ELSE Device

\* sizeof(MemoryMapHeader) is one unit, the header's plbufAmountToTransmit.
HeaderSize     == 1
Header(amount) == << amount >>
Cell           == Byte \cup Nat     \* what a byte of shared memory may hold

VARIABLES
  wsem, rsem, tsem,  \* values of the write, read and transmit semaphores
  nbytes,            \* shmbuf.nbytes
  hdata,             \* shmbuf.header
  bdata,             \* shmbuf.data
  pc,                \* pc[p]: where p stands in transmitBytes or receiveBytes
  ifHeader,          \* ifHeader[p]: the argument of the running call
  buf,               \* buf[p]: src of a transmission, dest of a reception
  first,             \* first[p]: chunk = 0
  count,             \* count[p]: transmitted_bytes or received_bytes
  chunkBytes,        \* chunkBytes[p]: nbytes_chunk
  total,             \* total[p]: nbytes of a reception
  pending,           \* data the device still has to send after its header
  owed               \* amount the viewer has to receive after a header

sems   == << wsem, rsem, tsem >>
shm    == << nbytes, hdata, bdata >>
locals == << ifHeader, buf, first, count, chunkBytes, total >>
calls  == << pending, owed >>
vars   == << sems, shm, pc, locals, calls >>

\* Labels of transmitBytes and of receiveBytes, in code order; "threw" is
\* any of their throw statements.
Transmitting == {"t_waitT", "t_check", "t_postW", "t_waitW", "t_fill",
                 "t_postR", "t_waitLast", "t_checkEnd", "t_postT"}
Receiving    == {"r_waitR", "r_take", "r_postW", "r_postLast"}
Label        == {"idle", "threw"} \cup Transmitting \cup Receiving

Minimum(a, b) == IF a < b THEN a ELSE b
AreaSize(p)   == IF ifHeader[p] THEN HeaderSize ELSE SharedArraySize
\* n of receiveBytes: a whole header, or the amount the header named.
Capacity(p)   == IF ifHeader[p] THEN HeaderSize ELSE owed
At(p, from, to) == pc[p] = from /\ pc' = [pc EXCEPT ![p] = to]
\* areWriteReadSemaphoresBlocked
WriteReadBlocked == wsem = 0 /\ rsem = 0

\* PLThreeSemaphores::initializeToValid on fresh names, a fresh shmbuf.
Init ==
  /\ wsem = 0 /\ rsem = 0 /\ tsem = 1
  /\ nbytes = 0
  /\ hdata = [i \in 1..HeaderSize |-> 0]
  /\ bdata = [i \in 1..SharedArraySize |-> 0]
  /\ pc = [p \in Proc |-> "idle"]
  /\ ifHeader = [p \in Proc |-> TRUE]
  /\ buf = [p \in Proc |-> << >>]
  /\ first = [p \in Proc |-> TRUE]
  /\ count = [p \in Proc |-> 0]
  /\ chunkBytes = [p \in Proc |-> 0]
  /\ total = [p \in Proc |-> 0]
  /\ pending = << >>
  /\ owed = 0

-----------------------------------------------------------------------------
(* The calls.                                                              *)

Enter(p, label, header, bytes) ==
  /\ At(p, "idle", label)
  /\ ifHeader' = [ifHeader EXCEPT ![p] = header]
  /\ buf'   = [buf EXCEPT ![p] = bytes]
  /\ first' = [first EXCEPT ![p] = TRUE]
  /\ count' = [count EXCEPT ![p] = 0]
  /\ UNCHANGED << sems, shm, chunkBytes, total >>

\* transmitBytes( true, &header, sizeof header ), by TransmitBuffer in the
\* device and by OnMouse or the constructor in the viewer.
TransmitHeader(p) == \E data \in Payload :
  /\ p = Device => pending = << >>
  /\ p = Viewer => owed = 0 /\ data = << >>
  /\ Enter(p, "t_waitT", TRUE, Header(Len(data)))
  /\ pending' = IF p = Device THEN data ELSE pending
  /\ UNCHANGED owed

\* transmitBytes( false, plbuf data, amount ) that follows a device's header.
TransmitData ==
  /\ pending # << >>
  /\ Enter(Device, "t_waitT", FALSE, pending)
  /\ pending' = << >>
  /\ UNCHANGED owed

\* Wrong: the data that follows a header is received as another header.
ReceiveHeaderAgain(p) ==
  /\ p = Device => pending = << >>
  /\ Enter(p, "r_waitR", TRUE, << >>)
  /\ UNCHANGED calls

\* receiveBytes( true, ... ), or receiveBytes( false, ..., amount ) when the
\* header before announced data.
Receive(p) ==
  /\ p = Device => pending = << >>
  /\ Enter(p, "r_waitR", p = Device \/ owed = 0, << >>)
  /\ UNCHANGED calls

-----------------------------------------------------------------------------
(* transmitBytes.                                                          *)

WaitTransmit(p) ==
  /\ At(p, "t_waitT", "t_check")
  /\ tsem > 0
  /\ tsem' = tsem - 1
  /\ UNCHANGED << wsem, rsem, shm, locals, calls >>

CheckBlockedAtStart(p) ==
  /\ At(p, "t_check", IF WriteReadBlocked THEN "t_postW" ELSE "threw")
  /\ UNCHANGED << sems, shm, locals, calls >>

PostWriteToStart(p) ==
  /\ At(p, "t_postW", "t_waitW")
  /\ wsem' = wsem + 1
  /\ UNCHANGED << rsem, tsem, shm, locals, calls >>

\* Wrong: a trywait whose result is ignored.
WaitWriteNot(p) ==
  /\ At(p, "t_waitW", "t_fill")
  /\ UNCHANGED << sems, shm, locals, calls >>

WaitWrite(p) ==
  /\ At(p, "t_waitW", "t_fill")
  /\ wsem > 0
  /\ wsem' = wsem - 1
  /\ UNCHANGED << rsem, tsem, shm, locals, calls >>

\* Wrong: csrc is not advanced between the chunks.
CopyInFromStart(area, p, piece) ==
  [i \in DOMAIN area |-> IF i <= piece THEN buf[p][i] ELSE area[i]]

\* memcpy of the next piece of src: an area keeps its old bytes beyond it.
CopyIn(area, p, piece) ==
  [i \in DOMAIN area |-> IF i <= piece THEN buf[p][count[p] + i] ELSE area[i]]

FillShared(p) ==
  LET piece == Minimum(AreaSize(p), Len(buf[p]) - count[p]) IN
  /\ At(p, "t_fill", "t_postR")
  /\ nbytes' = IF first[p] THEN Len(buf[p]) ELSE nbytes
  /\ chunkBytes' = [chunkBytes EXCEPT ![p] = piece]
  /\ hdata' = IF ifHeader[p] THEN CopyIn(hdata, p, piece) ELSE hdata
  /\ bdata' = IF ifHeader[p] THEN bdata ELSE CopyIn(bdata, p, piece)
  /\ UNCHANGED << sems, ifHeader, buf, first, count, total, calls >>

PostRead(p) ==
  /\ At(p, "t_postR", IF chunkBytes[p] > 0 THEN "t_waitW" ELSE "t_waitLast")
  /\ rsem'  = rsem + 1
  /\ count' = [count EXCEPT ![p] = @ + chunkBytes[p]]
  /\ first' = [first EXCEPT ![p] = FALSE]
  /\ UNCHANGED << wsem, tsem, shm, ifHeader, buf, chunkBytes, total, calls >>

WaitLast(p) ==
  /\ At(p, "t_waitLast", "t_checkEnd")
  /\ wsem > 0
  /\ wsem' = wsem - 1
  /\ UNCHANGED << rsem, tsem, shm, locals, calls >>

CheckBlockedAtEnd(p) ==
  /\ At(p, "t_checkEnd", IF WriteReadBlocked THEN "t_postT" ELSE "threw")
  /\ UNCHANGED << sems, shm, locals, calls >>

\* Wrong: a return that leaves the transmit semaphore taken.
PostTransmitForgotten(p) ==
  /\ At(p, "t_postT", "idle")
  /\ UNCHANGED << sems, shm, locals, calls >>

PostTransmit(p) ==
  /\ At(p, "t_postT", "idle")
  /\ tsem' = tsem + 1
  /\ UNCHANGED << wsem, rsem, shm, locals, calls >>

-----------------------------------------------------------------------------
(* receiveBytes.                                                           *)

WaitRead(p) ==
  /\ At(p, "r_waitR", "r_take")
  /\ rsem > 0
  /\ rsem' = rsem - 1
  /\ UNCHANGED << wsem, tsem, shm, locals, calls >>

\* memcpy of a piece of an area to the end of dest.
CopyOut(area, p, piece) ==
  [i \in 1..(count[p] + piece) |->
     IF i <= count[p] THEN buf[p][i] ELSE area[i - count[p]]]

TakeShared(p) ==
  LET size  == IF first[p] THEN nbytes ELSE total[p]
      piece == Minimum(AreaSize(p), size - count[p])
  IN
  /\ At(p, "r_take", IF first[p] /\ nbytes > Capacity(p) THEN "threw"
                     ELSE IF piece > 0 THEN "r_postW" ELSE "r_postLast")
  /\ total' = [total EXCEPT ![p] = size]
  /\ IF pc'[p] = "r_postW"
       THEN /\ chunkBytes' = [chunkBytes EXCEPT ![p] = piece]
            /\ buf' = [buf EXCEPT ![p] = CopyOut(IF ifHeader[p] THEN hdata ELSE bdata, p, piece)]
            /\ count' = [count EXCEPT ![p] = @ + piece]
       ELSE UNCHANGED << chunkBytes, buf, count >>
  /\ first' = [first EXCEPT ![p] = FALSE]
  /\ UNCHANGED << sems, shm, ifHeader, calls >>

PostWrite(p) ==
  /\ At(p, "r_postW", "r_waitR")
  /\ wsem' = wsem + 1
  /\ UNCHANGED << rsem, tsem, shm, locals, calls >>

\* Wrong: a caller that takes what it received for a header, data or not.
PostWriteLastUnframed(p) ==
  /\ At(p, "r_postLast", "idle")
  /\ wsem' = wsem + 1
  /\ owed' = IF p = Viewer THEN buf[p][1] ELSE owed
  /\ UNCHANGED << rsem, tsem, shm, locals, pending >>

\* The last post, and the return: the viewer now knows what it owes.
PostWriteLast(p) ==
  /\ At(p, "r_postLast", "idle")
  /\ wsem' = wsem + 1
  /\ owed' = IF p # Viewer THEN owed
             ELSE IF ifHeader[p] THEN buf[p][1] ELSE 0
  /\ UNCHANGED << rsem, tsem, shm, locals, pending >>

-----------------------------------------------------------------------------
Transfer(p) ==
  \/ WaitTransmit(p) \/ CheckBlockedAtStart(p) \/ PostWriteToStart(p)
  \/ WaitWrite(p) \/ FillShared(p) \/ PostRead(p)
  \/ WaitLast(p) \/ CheckBlockedAtEnd(p) \/ PostTransmit(p)
  \/ WaitRead(p) \/ TakeShared(p) \/ PostWrite(p) \/ PostWriteLast(p)

Call(p) == TransmitHeader(p) \/ Receive(p)

Next == TransmitData \/ \E p \in Proc : Call(p) \/ Transfer(p)

\* Each process keeps running; a semaphore a process waits for is a guard.
Fairness == \A p \in Proc : WF_vars(Transfer(p))

Spec == Init /\ [][Next]_vars /\ Fairness
-----------------------------------------------------------------------------
(* Properties.                                                             *)

TypeOK ==
  /\ wsem \in Nat /\ rsem \in Nat /\ tsem \in Nat
  /\ nbytes \in Nat
  /\ hdata \in [1..HeaderSize -> Cell]
  /\ bdata \in [1..SharedArraySize -> Cell]
  /\ pc \in [Proc -> Label]
  /\ ifHeader \in [Proc -> BOOLEAN]
  /\ buf \in [Proc -> Seq(Cell)]
  /\ first \in [Proc -> BOOLEAN]
  /\ count \in [Proc -> Nat]
  /\ chunkBytes \in [Proc -> Nat]
  /\ total \in [Proc -> Nat]
  /\ pending \in Payload
  /\ owed \in Nat

\* The statements between a wait and the post that hands the turn over, the
\* only ones that touch the shared memory.
InShared(p) == pc[p] \in {"t_fill", "t_postR", "r_take", "r_postW", "r_postLast"}

\* The two processes are never both at their turn with the shared memory, so
\* neither memcpy overlaps the other's, nor the update of nbytes.
TurnTaking == ~ (InShared(Device) /\ InShared(Viewer))

\* The transmit semaphore is held from the wait at the top of transmitBytes to
\* the post at its end: never do both processes run a transfer.
Owns(p) == pc[p] \in Transmitting \ {"t_waitT"}
OneTransmitter == /\ ~ (Owns(Device) /\ Owns(Viewer))
                  /\ (tsem = 0) <=> (Owns(Device) \/ Owns(Viewer))

\* What the three semaphores are for.
MutualExclusion == TurnTaking /\ OneTransmitter

\* None of the throws is ever reached: the write and read semaphores are
\* blocked at both checks of transmitBytes and receiveBytes never finds more
\* bytes than its caller asked for.
NoThrow == \A p \in Proc : pc[p] # "threw"

\* At every chunk boundary the bytes received so far are the beginning of what
\* the other process is transmitting, although the area only ever holds one
\* chunk and keeps stale bytes behind a shorter one.
ReceivedIsPrefix == \A p \in Proc :
  /\ pc[p] \in Receiving /\ ~ first[p]
  => /\ Owns(Other(p))
     /\ ifHeader[p] = ifHeader[Other(p)]
     /\ count[p] <= Len(buf[Other(p)])
     /\ buf[p] = SubSeq(buf[Other(p)], 1, count[p])

-----------------------------------------------------------------------------
(* The refinement: receiveBytes has delivered at its last post.            *)

CallOf(p) ==
  CASE pc[p] \in Receiving -> "receive"
    [] pc[p] \in Transmitting ->
         IF pc[p] \in {"t_checkEnd", "t_postT"} \/ (pc[p] = "t_waitLast" /\ wsem = 1)
         THEN "transmitted" ELSE "transmit"
    [] OTHER -> "idle"

Rendezvous == INSTANCE ByteRendezvous WITH
  call <- [p \in Proc |-> CallOf(p)],
  buf  <- [p \in Proc |-> IF pc[p] \in Receiving THEN << >> ELSE buf[p]]

\* Every behaviour of the transfer is a rendezvous, its progress included: an
\* outstanding transmission and an outstanding reception do meet.
ImplementsRendezvous == Rendezvous!ASpec
=============================================================================
