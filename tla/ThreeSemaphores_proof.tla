----------------------- MODULE ThreeSemaphores_proof -----------------------
(***************************************************************************)
(* Proofs about the three-semaphore transfer, for every set of bytes and   *)
(* of payloads and every size of the shared area: the processes take turns *)
(* with the shared memory, nothing is thrown, a reception is always a      *)
(* prefix of its transmission, and every step is one of a rendezvous.      *)
(***************************************************************************)
EXTENDS ThreeSemaphores, SequenceTheorems, TLAPS

\* The labels by what they say of the semaphores: a transmitter with the turn,
\* a transmitter that waits for it, and a receiver with the turn.  A receiver
\* that threw keeps the turn for ever.
Leading   == {"t_check", "t_postW", "t_fill", "t_postR", "t_checkEnd", "t_postT"}
Awaiting  == {"t_waitW", "t_waitLast"}
Following == {"r_take", "r_postW", "r_postLast", "threw"}

ControlType == /\ wsem \in Nat /\ rsem \in Nat /\ tsem \in Nat
               /\ pc \in [Proc -> Label]

\* The transmit semaphore counts the transfers that may still begin.
Transmitters == /\ ~ (Owns(Device) /\ Owns(Viewer))
                /\ tsem = IF Owns(Device) \/ Owns(Viewer) THEN 0 ELSE 1
                /\ tsem = 1 => wsem = 0 /\ rsem = 0

\* The turn is in one place: with the transmitter, in one of the two
\* semaphores, or with the receiver.
Turn(p) ==
  /\ pc[p] \in Leading => wsem = 0 /\ rsem = 0 /\ pc[Other(p)] \notin Following
  /\ pc[p] \in Awaiting =>
       \/ wsem = 1 /\ rsem = 0 /\ pc[Other(p)] \notin Following
       \/ wsem = 0 /\ rsem = 1 /\ pc[Other(p)] \notin Following
       \/ wsem = 0 /\ rsem = 0 /\ pc[Other(p)] \in Following
  /\ pc[p] \in Following => pc[Other(p)] \in Awaiting

Control == ControlType /\ Transmitters /\ \A p \in Proc : Turn(p)

-----------------------------------------------------------------------------
(* The two processes.                                                      *)

\* There are exactly two processes, each the other of the other.
LEMMA Pair == \A p \in Proc : /\ Other(p) \in Proc /\ Other(p) # p
                              /\ Other(Other(p)) = p
                              /\ Proc = {p, Other(p)}
BY ThreeSemAssumption DEF Proc, Other

\* The transmitters, as either process sees them.
LEMMA EitherWay ==
  ASSUME NEW p \in Proc
  PROVE  Transmitters <=>
           /\ ~ (Owns(p) /\ Owns(Other(p)))
           /\ tsem = IF Owns(p) \/ Owns(Other(p)) THEN 0 ELSE 1
           /\ tsem = 1 => wsem = 0 /\ rsem = 0
BY ThreeSemAssumption DEF Transmitters, Proc, Other

-----------------------------------------------------------------------------
(* Every statement of a transfer keeps the turn in one place.              *)

\* One statement, of either process, moves the turn as a whole or not at all.
LEMMA ControlTransfer ==
  ASSUME Control, NEW p \in Proc, Transfer(p)
  PROVE  Control'
<1> USE Pair DEF Control, ControlType, Turn, Owns, At, Transmitting, Leading, Awaiting, Following
<1> DEFINE o == Other(p)
<1>a. Turn(p) /\ Turn(o) /\ Transmitters /\ o \in Proc /\ o # p /\ Other(o) = p
  OBVIOUS
<1>1. CASE WaitTransmit(p)
  <2>1. ControlType' /\ pc'[o] = pc[o]
    BY <1>1 DEF WaitTransmit, Label, Receiving, sems
  <2>2. Transmitters'
    BY <1>a, <1>1, <2>1, EitherWay DEF WaitTransmit, Transmitters, sems, Proc
  <2>3. Turn(p)' /\ Turn(o)'
    BY <1>a, <1>1, <2>1, EitherWay DEF WaitTransmit, sems
  <2> QED BY <1>a, <2>1, <2>2, <2>3
<1>2. CASE CheckBlockedAtStart(p)
  <2>1. ControlType' /\ pc'[o] = pc[o]
    BY <1>2 DEF CheckBlockedAtStart, Label, Receiving, sems
  <2>2. Transmitters'
    BY <1>a, <1>2, <2>1, EitherWay DEF CheckBlockedAtStart, WriteReadBlocked, Transmitters, sems, Proc
  <2>3. Turn(p)' /\ Turn(o)'
    BY <1>a, <1>2, <2>1, EitherWay DEF CheckBlockedAtStart, WriteReadBlocked, sems
  <2> QED BY <1>a, <2>1, <2>2, <2>3
<1>3. CASE PostWriteToStart(p)
  <2>1. ControlType' /\ pc'[o] = pc[o]
    BY <1>3 DEF PostWriteToStart, Label, Receiving, sems
  <2>2. Transmitters'
    BY <1>a, <1>3, <2>1, EitherWay DEF PostWriteToStart, Transmitters, sems, Proc
  <2>3. Turn(p)' /\ Turn(o)'
    BY <1>a, <1>3, <2>1, EitherWay DEF PostWriteToStart, sems
  <2> QED BY <1>a, <2>1, <2>2, <2>3
<1>4. CASE WaitWrite(p)
  <2>1. ControlType' /\ pc'[o] = pc[o]
    BY <1>4 DEF WaitWrite, Label, Receiving, sems
  <2>2. Transmitters'
    BY <1>a, <1>4, <2>1, EitherWay DEF WaitWrite, Transmitters, sems, Proc
  <2>3. Turn(p)' /\ Turn(o)'
    BY <1>a, <1>4, <2>1, EitherWay DEF WaitWrite, sems
  <2> QED BY <1>a, <2>1, <2>2, <2>3
<1>5. CASE FillShared(p)
  <2>1. ControlType' /\ pc'[o] = pc[o]
    BY <1>5 DEF FillShared, Label, Receiving, sems
  <2>2. Transmitters'
    BY <1>a, <1>5, <2>1, EitherWay DEF FillShared, Transmitters, sems, Proc
  <2>3. Turn(p)' /\ Turn(o)'
    BY <1>a, <1>5, <2>1, EitherWay DEF FillShared, sems
  <2> QED BY <1>a, <2>1, <2>2, <2>3
<1>6. CASE PostRead(p)
  <2>1. ControlType' /\ pc'[o] = pc[o]
    BY <1>6 DEF PostRead, Label, Receiving, sems
  <2>2. Transmitters'
    BY <1>a, <1>6, <2>1, EitherWay DEF PostRead, Transmitters, sems, Proc
  <2>3. Turn(p)' /\ Turn(o)'
    BY <1>a, <1>6, <2>1, EitherWay DEF PostRead, sems
  <2> QED BY <1>a, <2>1, <2>2, <2>3
<1>7. CASE WaitLast(p)
  <2>1. ControlType' /\ pc'[o] = pc[o]
    BY <1>7 DEF WaitLast, Label, Receiving, sems
  <2>2. Transmitters'
    BY <1>a, <1>7, <2>1, EitherWay DEF WaitLast, Transmitters, sems, Proc
  <2>3. Turn(p)' /\ Turn(o)'
    BY <1>a, <1>7, <2>1, EitherWay DEF WaitLast, sems
  <2> QED BY <1>a, <2>1, <2>2, <2>3
<1>8. CASE CheckBlockedAtEnd(p)
  <2>1. ControlType' /\ pc'[o] = pc[o]
    BY <1>8 DEF CheckBlockedAtEnd, Label, Receiving, sems
  <2>2. Transmitters'
    BY <1>a, <1>8, <2>1, EitherWay DEF CheckBlockedAtEnd, WriteReadBlocked, Transmitters, sems, Proc
  <2>3. Turn(p)' /\ Turn(o)'
    BY <1>a, <1>8, <2>1, EitherWay DEF CheckBlockedAtEnd, WriteReadBlocked, sems
  <2> QED BY <1>a, <2>1, <2>2, <2>3
<1>9. CASE PostTransmit(p)
  <2>1. ControlType' /\ pc'[o] = pc[o]
    BY <1>9 DEF PostTransmit, Label, Receiving, sems
  <2>2. Transmitters'
    BY <1>a, <1>9, <2>1, EitherWay DEF PostTransmit, Transmitters, sems, Proc
  <2>3. Turn(p)' /\ Turn(o)'
    BY <1>a, <1>9, <2>1, EitherWay DEF PostTransmit, sems
  <2> QED BY <1>a, <2>1, <2>2, <2>3
<1>10. CASE WaitRead(p)
  <2>1. ControlType' /\ pc'[o] = pc[o]
    BY <1>10 DEF WaitRead, Label, Receiving, sems
  <2>2. Transmitters'
    BY <1>a, <1>10, <2>1, EitherWay DEF WaitRead, Transmitters, sems, Proc
  <2>3. Turn(p)' /\ Turn(o)'
    BY <1>a, <1>10, <2>1, EitherWay DEF WaitRead, sems
  <2> QED BY <1>a, <2>1, <2>2, <2>3
<1>11. CASE TakeShared(p)
  <2>1. ControlType' /\ pc'[o] = pc[o]
    BY <1>11 DEF TakeShared, Label, Receiving, sems
  <2>2. Transmitters'
    BY <1>a, <1>11, <2>1, EitherWay DEF TakeShared, Transmitters, sems, Proc
  <2>3. Turn(p)' /\ Turn(o)'
    BY <1>a, <1>11, <2>1, EitherWay DEF TakeShared, sems
  <2> QED BY <1>a, <2>1, <2>2, <2>3
<1>12. CASE PostWrite(p)
  <2>1. ControlType' /\ pc'[o] = pc[o]
    BY <1>12 DEF PostWrite, Label, Receiving, sems
  <2>2. Transmitters'
    BY <1>a, <1>12, <2>1, EitherWay DEF PostWrite, Transmitters, sems, Proc
  <2>3. Turn(p)' /\ Turn(o)'
    BY <1>a, <1>12, <2>1, EitherWay DEF PostWrite, sems
  <2> QED BY <1>a, <2>1, <2>2, <2>3
<1>13. CASE PostWriteLast(p)
  <2>1. ControlType' /\ pc'[o] = pc[o]
    BY <1>13 DEF PostWriteLast, Label, Receiving, sems
  <2>2. Transmitters'
    BY <1>a, <1>13, <2>1, EitherWay DEF PostWriteLast, Transmitters, sems, Proc
  <2>3. Turn(p)' /\ Turn(o)'
    BY <1>a, <1>13, <2>1, EitherWay DEF PostWriteLast, sems
  <2> QED BY <1>a, <2>1, <2>2, <2>3
<1> QED BY <1>1, <1>2, <1>3, <1>4, <1>5, <1>6, <1>7, <1>8, <1>9, <1>10, <1>11, <1>12, <1>13 DEF Transfer

\* So does a call, which only leaves "idle".
LEMMA ControlCall ==
  ASSUME Control, NEW p \in Proc, NEW label \in {"t_waitT", "r_waitR"},
         At(p, "idle", label), UNCHANGED sems
  PROVE  Control'
<1> USE Pair DEF Control, ControlType, Turn, Owns, At, Transmitting, Leading, Awaiting, Following, sems
<1> DEFINE o == Other(p)
<1>1. ControlType' /\ pc'[o] = pc[o]
  BY DEF Label, Receiving
<1>2. Transmitters'
  BY <1>1, EitherWay DEF Transmitters, Proc
<1>3. Turn(p)' /\ Turn(o)'
  BY <1>1, EitherWay
<1> QED BY <1>1, <1>2, <1>3

\* The transmit semaphore starts at one, the others at zero.
LEMMA ControlInit == Init => Control
BY Pair, ThreeSemAssumption
   DEF Init, Control, ControlType, Transmitters, Turn, Owns, Label, Transmitting,
       Receiving, Leading, Awaiting, Following, Proc

\* The strengthening is inductive.
LEMMA ControlStep == Control /\ [Next]_vars => Control'
<1> SUFFICES ASSUME Control, [Next]_vars PROVE Control'
  OBVIOUS
<1>1. CASE TransmitData
  BY <1>1, ControlCall DEF TransmitData, Enter, Proc
<1>2. ASSUME NEW p \in Proc, TransmitHeader(p) PROVE Control'
  BY <1>2, ControlCall DEF TransmitHeader, Enter
<1>3. ASSUME NEW p \in Proc, Receive(p) PROVE Control'
  BY <1>3, ControlCall DEF Receive, Enter
<1>4. ASSUME NEW p \in Proc, Transfer(p) PROVE Control'
  BY <1>4, ControlTransfer
<1>5. CASE UNCHANGED vars
  BY <1>5 DEF Control, ControlType, Transmitters, Turn, Owns, vars, sems
<1> QED BY <1>1, <1>2, <1>3, <1>4, <1>5 DEF Next, Call

\* The semaphores' protocol itself: the turn, and the transfer, have one owner.
THEOREM ControlInvariant == Spec => []Control
BY ControlInit, ControlStep, PTL DEF Spec

\* The processes are never both at the shared memory: a process there is
\* leading or following, and those exclude each other.
THEOREM TurnTakingHolds == Spec => []TurnTaking
<1>1. Control => TurnTaking
  BY ThreeSemAssumption
     DEF Control, Transmitters, Turn, TurnTaking, InShared, Owns, Transmitting,
         Leading, Awaiting, Following, Proc, Other
<1> QED BY <1>1, ControlInvariant, PTL

\* At most one transfer runs, and the transmit semaphore says whether one does.
THEOREM OneTransmitterHolds == Spec => []OneTransmitter
<1>1. Control => OneTransmitter
  BY DEF Control, Transmitters, OneTransmitter
<1> QED BY <1>1, ControlInvariant, PTL

\* What the semaphores are for: both of the above.
THEOREM MutualExclusionHolds == Spec => []MutualExclusion
BY TurnTakingHolds, OneTransmitterHolds, PTL DEF MutualExclusion

-----------------------------------------------------------------------------
(* The bytes: what the transmitter has sent, what the receiver has taken,  *)
(* and how the callers frame their transmissions.                          *)

\* A transmission that its receiver has not yet received to the end.
InTransfer(t) == /\ Owns(t) /\ pc[t] \notin {"t_checkEnd", "t_postT"}
                 /\ ~ (pc[t] = "t_waitLast" /\ wsem = 1)

\* A reception past its first chunk.
Started(r) == pc[r] \in Receiving /\ ~ first[r]

\* A chunk of t lies in the area, not taken yet; Taken(t) bytes lie before it.
InArea(t) == \/ pc[t] = "t_postR"
             \/ /\ pc[t] \in Awaiting /\ wsem = 0
                /\ pc[Other(t)] \notin {"r_postW", "r_postLast"}
Taken(t)  == IF InArea(t) /\ pc[t] # "t_postR" THEN count[t] - chunkBytes[t] ELSE count[t]
Area(t)   == IF ifHeader[t] THEN hdata ELSE bdata

Sending(t) == pc[t] \in Transmitting =>
  /\ Taken(t) \in Nat /\ count[t] <= Len(buf[t])
  /\ pc[t] \in {"t_waitT", "t_check", "t_postW"} => first[t]
  /\ first[t] <=> (count[t] = 0)
  /\ ~ first[t] \/ pc[t] = "t_postR" => nbytes = Len(buf[t])
  /\ pc[t] = "t_waitW" /\ ~ first[t] => chunkBytes[t] > 0
  /\ pc[t] = "t_waitLast" => chunkBytes[t] = 0 /\ count[t] = Len(buf[t]) /\ ~ first[t]
  /\ pc[t] = "t_waitW" /\ wsem = 0 => ~ first[t]
  /\ InArea(t) =>
       /\ chunkBytes[t] = Minimum(AreaSize(t), Len(buf[t]) - Taken(t))
       /\ \A i \in 1..chunkBytes[t] : Area(t)[i] = buf[t][Taken(t) + i]
  /\ InTransfer(t) /\ Taken(t) > 0 => Started(Other(t))

Taking(r) ==
  /\ pc[r] \in Receiving /\ first[r] => /\ pc[r] \in {"r_waitR", "r_take"}
                                        /\ count[r] = 0 /\ buf[r] = << >>
  /\ Started(r) => /\ InTransfer(Other(r))
                   /\ ifHeader[r] = ifHeader[Other(r)]
                   /\ total[r] = Len(buf[Other(r)])
                   /\ count[r] = Taken(Other(r)) /\ count[r] > 0
                   /\ Len(buf[r]) = count[r]
                   /\ \A i \in 1..count[r] : buf[r][i] = buf[Other(r)][i]
  /\ pc[r] = "r_postW"    => pc[Other(r)] = "t_waitW"
  /\ pc[r] = "r_postLast" => pc[Other(r)] = "t_waitLast"

\* The callers' discipline: a header of the device names the data that follows
\* it, and the viewer owes the reception of what it has been told of.
Framing ==
  /\ pc[Device] \in Transmitting =>
       IF ifHeader[Device] THEN buf[Device] = Header(Len(pending))
                           ELSE pending = << >> /\ buf[Device] # << >>
  /\ pc[Viewer] \in Transmitting => ifHeader[Viewer] /\ buf[Viewer] = Header(0) /\ owed = 0
  /\ pc[Device] \in Receiving => ifHeader[Device] /\ pending = << >>
  /\ pc[Viewer] \in Receiving => (ifHeader[Viewer] <=> owed = 0)
  /\ owed = IF pc[Device] = "t_waitT" \/ InTransfer(Device)
            THEN IF ifHeader[Device] THEN 0 ELSE Len(buf[Device])
            ELSE Len(pending)

Bytes == /\ TypeOK /\ NoThrow /\ Framing
         /\ \A p \in Proc : Sending(p) /\ Taking(p)

-----------------------------------------------------------------------------
(* One statement of a transfer at a time.                                  *)

\* An area has room, and a transmission is never empty.
LEMMA AreaNotEmpty == \A p \in Proc : AreaSize(p) \in Nat \ {0}
BY ThreeSemAssumption DEF AreaSize, HeaderSize

\* The device announces no data it does not have.
LEMMA NotEmpty ==
  ASSUME Bytes, NEW p \in Proc, pc[p] \in Transmitting
  PROVE  Len(buf[p]) \in Nat \ {0}
<1>1. buf[p] \in Seq(Cell)
  BY DEF Bytes, TypeOK
<1>2. buf[p] # << >>
  <2>1. \A x : << x >> # << >>
    OBVIOUS
  <2>2. CASE p = Device
    BY <2>1, <2>2 DEF Bytes, Framing, Header
  <2>3. CASE p = Viewer
    BY <2>1, <2>3 DEF Bytes, Framing, Header
  <2> QED BY <2>2, <2>3 DEF Proc
<1> QED BY <1>1, <1>2, EmptySeq

\* A transfer that begins has sent nothing.
LEMMA WaitTransmitBytes ==
  ASSUME Control, Bytes, NEW p \in Proc, WaitTransmit(p)
  PROVE  Bytes'
<1> USE Pair DEF Turn, At, Transmitting, Receiving, Leading, Awaiting, Following
<1> DEFINE o == Other(p)
<1>1. Turn(p) /\ Turn(o) /\ o \in Proc /\ o # p /\ Other(o) = p /\ Sending(p) /\ Sending(o) /\ Taking(p) /\ Taking(o)
      /\ TypeOK /\ NoThrow /\ Framing /\ ~ (Owns(p) /\ Owns(o)) /\ pc \in [Proc -> Label]
  BY EitherWay DEF Control, ControlType, Bytes
<1>2. TypeOK'
  BY <1>1 DEF WaitTransmit, TypeOK, Label, sems, shm, locals, calls
<1>3. NoThrow'
  BY <1>1 DEF WaitTransmit, WriteReadBlocked, TypeOK, NoThrow, Label, sems, shm, locals, calls
<1>4. Framing'
  BY <1>1, ThreeSemAssumption DEF WaitTransmit, WriteReadBlocked, TypeOK, Framing, InTransfer, Owns, Proc, Other, sems, shm, locals, calls
<1>5. Sending(p)' /\ Taking(p)'
  BY <1>1 DEF WaitTransmit, TypeOK, Sending, Taking, Started, InTransfer, InArea, Taken, Area, AreaSize, Owns, sems, shm, locals, calls
<1>6. Sending(o)' /\ Taking(o)'
  BY <1>1 DEF WaitTransmit, TypeOK, Sending, Taking, Started, InTransfer, InArea, Taken, Area, AreaSize, Owns, sems, shm, locals, calls
<1> QED BY <1>1, <1>2, <1>3, <1>4, <1>5, <1>6 DEF Bytes

\* The check at the start of a transfer passes.
LEMMA CheckBlockedAtStartBytes ==
  ASSUME Control, Bytes, NEW p \in Proc, CheckBlockedAtStart(p)
  PROVE  Bytes'
<1> USE Pair DEF Turn, At, Transmitting, Receiving, Leading, Awaiting, Following
<1> DEFINE o == Other(p)
<1>1. Turn(p) /\ Turn(o) /\ o \in Proc /\ o # p /\ Other(o) = p /\ Sending(p) /\ Sending(o) /\ Taking(p) /\ Taking(o)
      /\ TypeOK /\ NoThrow /\ Framing /\ ~ (Owns(p) /\ Owns(o)) /\ pc \in [Proc -> Label]
  BY EitherWay DEF Control, ControlType, Bytes
<1>2. TypeOK'
  BY <1>1 DEF CheckBlockedAtStart, TypeOK, Label, sems, shm, locals, calls
<1>3. NoThrow'
  BY <1>1 DEF CheckBlockedAtStart, WriteReadBlocked, TypeOK, NoThrow, Label, sems, shm, locals, calls
<1>4. Framing'
  BY <1>1, ThreeSemAssumption DEF CheckBlockedAtStart, WriteReadBlocked, TypeOK, Framing, InTransfer, Owns, Proc, Other, sems, shm, locals, calls
<1>5. Sending(p)' /\ Taking(p)'
  BY <1>1 DEF CheckBlockedAtStart, TypeOK, Sending, Taking, Started, InTransfer, InArea, Taken, Area, AreaSize, Owns, sems, shm, locals, calls
<1>6. Sending(o)' /\ Taking(o)'
  BY <1>1 DEF CheckBlockedAtStart, TypeOK, Sending, Taking, Started, InTransfer, InArea, Taken, Area, AreaSize, Owns, sems, shm, locals, calls
<1> QED BY <1>1, <1>2, <1>3, <1>4, <1>5, <1>6 DEF Bytes

\* The first post gives the transmitter its own turn.
LEMMA PostWriteToStartBytes ==
  ASSUME Control, Bytes, NEW p \in Proc, PostWriteToStart(p)
  PROVE  Bytes'
<1> USE Pair DEF Turn, At, Transmitting, Receiving, Leading, Awaiting, Following
<1> DEFINE o == Other(p)
<1>1. Turn(p) /\ Turn(o) /\ o \in Proc /\ o # p /\ Other(o) = p /\ Sending(p) /\ Sending(o) /\ Taking(p) /\ Taking(o)
      /\ TypeOK /\ NoThrow /\ Framing /\ ~ (Owns(p) /\ Owns(o)) /\ pc \in [Proc -> Label]
  BY EitherWay DEF Control, ControlType, Bytes
<1>2. TypeOK'
  BY <1>1 DEF PostWriteToStart, TypeOK, Label, sems, shm, locals, calls
<1>3. NoThrow'
  BY <1>1 DEF PostWriteToStart, WriteReadBlocked, TypeOK, NoThrow, Label, sems, shm, locals, calls
<1>4. Framing'
  BY <1>1, ThreeSemAssumption DEF PostWriteToStart, WriteReadBlocked, TypeOK, Framing, InTransfer, Owns, Proc, Other, sems, shm, locals, calls
<1>5. Sending(p)' /\ Taking(p)'
  BY <1>1 DEF PostWriteToStart, TypeOK, Sending, Taking, Started, InTransfer, InArea, Taken, Area, AreaSize, Owns, sems, shm, locals, calls
<1>6. Sending(o)' /\ Taking(o)'
  BY <1>1 DEF PostWriteToStart, TypeOK, Sending, Taking, Started, InTransfer, InArea, Taken, Area, AreaSize, Owns, sems, shm, locals, calls
<1> QED BY <1>1, <1>2, <1>3, <1>4, <1>5, <1>6 DEF Bytes

\* A transmitter takes its turn back with everything sent so far taken.
LEMMA WaitWriteBytes ==
  ASSUME Control, Bytes, NEW p \in Proc, WaitWrite(p)
  PROVE  Bytes'
<1> USE Pair DEF Turn, At, Transmitting, Receiving, Leading, Awaiting, Following
<1> DEFINE o == Other(p)
<1>1. Turn(p) /\ Turn(o) /\ o \in Proc /\ o # p /\ Other(o) = p /\ Sending(p) /\ Sending(o) /\ Taking(p) /\ Taking(o)
      /\ TypeOK /\ NoThrow /\ Framing /\ ~ (Owns(p) /\ Owns(o)) /\ pc \in [Proc -> Label]
  BY EitherWay DEF Control, ControlType, Bytes
<1>2. TypeOK'
  BY <1>1 DEF WaitWrite, TypeOK, Label, sems, shm, locals, calls
<1>3. NoThrow'
  BY <1>1 DEF WaitWrite, WriteReadBlocked, TypeOK, NoThrow, Label, sems, shm, locals, calls
<1>4. Framing'
  BY <1>1, ThreeSemAssumption DEF WaitWrite, WriteReadBlocked, TypeOK, Framing, InTransfer, Owns, Proc, Other, sems, shm, locals, calls
<1>5. Sending(p)' /\ Taking(p)'
  BY <1>1 DEF WaitWrite, TypeOK, Sending, Taking, Started, InTransfer, InArea, Taken, Area, AreaSize, Owns, sems, shm, locals, calls
<1>6. Sending(o)' /\ Taking(o)'
  BY <1>1 DEF WaitWrite, TypeOK, Sending, Taking, Started, InTransfer, InArea, Taken, Area, AreaSize, Owns, sems, shm, locals, calls
<1> QED BY <1>1, <1>2, <1>3, <1>4, <1>5, <1>6 DEF Bytes

\* The chunk that is filled in is the next of the transmission.
LEMMA FillSharedBytes ==
  ASSUME Control, Bytes, NEW p \in Proc, FillShared(p)
  PROVE  Bytes'
<1> USE Pair DEF Turn, At, Transmitting, Receiving, Leading, Awaiting, Following
<1> DEFINE o == Other(p)
<1>1. Turn(p) /\ Turn(o) /\ o \in Proc /\ o # p /\ Other(o) = p /\ Sending(p) /\ Sending(o) /\ Taking(p) /\ Taking(o)
      /\ TypeOK /\ NoThrow /\ Framing /\ ~ (Owns(p) /\ Owns(o)) /\ pc \in [Proc -> Label]
  BY EitherWay DEF Control, ControlType, Bytes
<1> DEFINE piece == Minimum(AreaSize(p), Len(buf[p]) - count[p])
<1>2. /\ pc[p] = "t_fill" /\ count[p] \in Nat /\ Taken(p) = count[p] /\ InTransfer(p)
      /\ Len(buf[p]) \in Nat /\ count[p] <= Len(buf[p])
  BY <1>1 DEF FillShared, TypeOK, Sending, Taken, InArea, InTransfer, Owns
<1>3. piece \in Nat /\ piece <= Len(buf[p]) - count[p] /\ piece <= AreaSize(p)
  BY <1>2, AreaNotEmpty DEF Minimum
<1>4. /\ CopyIn(hdata, p, piece) \in [1..HeaderSize -> Cell]
      /\ CopyIn(bdata, p, piece) \in [1..SharedArraySize -> Cell]
  <2>1. \A i \in Nat \ {0} : i <= piece => buf[p][count[p] + i] \in Cell
    BY <1>1, <1>2, <1>3, ElementOfSeq DEF TypeOK
  <2> QED BY <1>1, <2>1, <1>3 DEF CopyIn, TypeOK
<1>5. TypeOK'
  BY <1>1, <1>2, <1>3, <1>4 DEF FillShared, TypeOK, Label, sems, calls
<1>6. NoThrow'
  BY <1>1 DEF FillShared, TypeOK, NoThrow, Label
<1>7. Framing'
  BY <1>1, ThreeSemAssumption DEF FillShared, TypeOK, Framing, InTransfer, Owns, Proc, Other, sems, calls
<1>8. Sending(p)' /\ Taking(p)'
  <2>1. /\ pc'[p] = "t_postR" /\ pc'[o] = pc[o] /\ Taken(p)' = count[p] /\ AreaSize(p)' = AreaSize(p)
        /\ chunkBytes'[p] = piece /\ buf' = buf /\ first' = first /\ count' = count
        /\ nbytes' = (IF first[p] THEN Len(buf[p]) ELSE nbytes)
    BY <1>1, <1>2 DEF FillShared, TypeOK, Taken, InArea, AreaSize
  <2>2. ASSUME NEW i \in 1..piece PROVE Area(p)'[i] = buf[p][count[p] + i]
    <3>1. Area(p)' = CopyIn(Area(p), p, piece) /\ i \in DOMAIN Area(p)
      BY <1>1, <1>3, <1>2, AreaNotEmpty DEF FillShared, TypeOK, Area, AreaSize, HeaderSize
    <3> QED BY <3>1, <1>3 DEF CopyIn
  <2>3. Taken(p)' \in Nat /\ (InTransfer(p)' /\ Taken(p)' > 0 => Started(o)')
    BY <1>1, <1>2, <2>1 DEF Sending, Started
  <2> QED BY <1>1, <1>2, <2>1, <2>2, <2>3 DEF Sending, Taking, Started
<1>9. Sending(o)' /\ Taking(o)'
  BY <1>1 DEF FillShared, TypeOK, Sending, Taking, Started, InTransfer, InArea, Taken, Owns, sems
<1> QED BY <1>1, <1>5, <1>6, <1>7, <1>8, <1>9 DEF Bytes

\* A chunk is handed over; after an empty one the transmitter has sent all.
LEMMA PostReadBytes ==
  ASSUME Control, Bytes, NEW p \in Proc, PostRead(p)
  PROVE  Bytes'
<1> USE Pair DEF Turn, At, Transmitting, Receiving, Leading, Awaiting, Following
<1> DEFINE o == Other(p)
<1>1. Turn(p) /\ Turn(o) /\ o \in Proc /\ o # p /\ Other(o) = p /\ Sending(p) /\ Sending(o) /\ Taking(p) /\ Taking(o)
      /\ TypeOK /\ NoThrow /\ Framing /\ ~ (Owns(p) /\ Owns(o)) /\ pc \in [Proc -> Label]
  BY EitherWay DEF Control, ControlType, Bytes
<1>2. TypeOK'
  BY <1>1 DEF PostRead, TypeOK, Label, shm, calls
<1>3. NoThrow'
  BY <1>1 DEF PostRead, TypeOK, NoThrow, Label
<1>4. Framing'
  BY <1>1, ThreeSemAssumption DEF PostRead, TypeOK, Framing, InTransfer, Owns, Proc, Other, calls
<1>5. Sending(p)' /\ Taking(p)'
  <2>1. /\ pc[p] = "t_postR" /\ Taken(p) = count[p] /\ InArea(p) /\ InTransfer(p) /\ nbytes = Len(buf[p])
        /\ chunkBytes[p] = Minimum(AreaSize(p), Len(buf[p]) - count[p])
        /\ \A i \in 1..chunkBytes[p] : Area(p)[i] = buf[p][count[p] + i]
    BY <1>1 DEF PostRead, TypeOK, Sending, Taken, InArea, InTransfer, Owns
  <2>2. /\ Len(buf[p]) \in Nat \ {0} /\ chunkBytes[p] \in Nat /\ count[p] \in Nat
        /\ count[p] + chunkBytes[p] <= Len(buf[p])
        /\ chunkBytes[p] = 0 => count[p] = Len(buf[p])
    BY <1>1, <2>1, AreaNotEmpty, NotEmpty DEF Minimum, TypeOK, Sending
  <2>3. /\ pc'[p] = IF chunkBytes[p] > 0 THEN "t_waitW" ELSE "t_waitLast"
        /\ pc'[o] = pc[o] /\ pc[o] \notin Following /\ wsem' = 0
        /\ count'[p] = count[p] + chunkBytes[p] /\ ~ first'[p]
        /\ Area(p)' = Area(p) /\ AreaSize(p)' = AreaSize(p) /\ chunkBytes' = chunkBytes
        /\ buf' = buf /\ nbytes' = nbytes /\ (Started(o)' <=> Started(o))
    BY <1>1, <2>1 DEF PostRead, TypeOK, Area, AreaSize, Started, shm
  <2>4. InArea(p)' /\ Taken(p)' = count[p]
    BY <1>1, <2>2, <2>3 DEF InArea, Taken
  <2>5. Sending(p)'
    BY <1>1, <2>1, <2>2, <2>3, <2>4 DEF Sending
  <2> QED BY <2>3, <2>5 DEF Taking, Started
<1>6. Sending(o)' /\ Taking(o)'
  BY <1>1 DEF PostRead, TypeOK, Sending, Taking, Started, InTransfer, InArea, Taken, Owns, shm
<1> QED BY <1>1, <1>2, <1>3, <1>4, <1>5, <1>6 DEF Bytes

\* The last wait ends when the reception has.
LEMMA WaitLastBytes ==
  ASSUME Control, Bytes, NEW p \in Proc, WaitLast(p)
  PROVE  Bytes'
<1> USE Pair DEF Turn, At, Transmitting, Receiving, Leading, Awaiting, Following
<1> DEFINE o == Other(p)
<1>1. Turn(p) /\ Turn(o) /\ o \in Proc /\ o # p /\ Other(o) = p /\ Sending(p) /\ Sending(o) /\ Taking(p) /\ Taking(o)
      /\ TypeOK /\ NoThrow /\ Framing /\ ~ (Owns(p) /\ Owns(o)) /\ pc \in [Proc -> Label]
  BY EitherWay DEF Control, ControlType, Bytes
<1>2. TypeOK'
  BY <1>1 DEF WaitLast, TypeOK, Label, sems, shm, locals, calls
<1>3. NoThrow'
  BY <1>1 DEF WaitLast, WriteReadBlocked, TypeOK, NoThrow, Label, sems, shm, locals, calls
<1>4. Framing'
  BY <1>1, ThreeSemAssumption DEF WaitLast, WriteReadBlocked, TypeOK, Framing, InTransfer, Owns, Proc, Other, sems, shm, locals, calls
<1>5. Sending(p)' /\ Taking(p)'
  BY <1>1 DEF WaitLast, TypeOK, Sending, Taking, Started, InTransfer, InArea, Taken, Area, AreaSize, Owns, sems, shm, locals, calls
<1>6. Sending(o)' /\ Taking(o)'
  BY <1>1 DEF WaitLast, TypeOK, Sending, Taking, Started, InTransfer, InArea, Taken, Area, AreaSize, Owns, sems, shm, locals, calls
<1> QED BY <1>1, <1>2, <1>3, <1>4, <1>5, <1>6 DEF Bytes

\* The check at the end of a transfer passes.
LEMMA CheckBlockedAtEndBytes ==
  ASSUME Control, Bytes, NEW p \in Proc, CheckBlockedAtEnd(p)
  PROVE  Bytes'
<1> USE Pair DEF Turn, At, Transmitting, Receiving, Leading, Awaiting, Following
<1> DEFINE o == Other(p)
<1>1. Turn(p) /\ Turn(o) /\ o \in Proc /\ o # p /\ Other(o) = p /\ Sending(p) /\ Sending(o) /\ Taking(p) /\ Taking(o)
      /\ TypeOK /\ NoThrow /\ Framing /\ ~ (Owns(p) /\ Owns(o)) /\ pc \in [Proc -> Label]
  BY EitherWay DEF Control, ControlType, Bytes
<1>2. TypeOK'
  BY <1>1 DEF CheckBlockedAtEnd, TypeOK, Label, sems, shm, locals, calls
<1>3. NoThrow'
  BY <1>1 DEF CheckBlockedAtEnd, WriteReadBlocked, TypeOK, NoThrow, Label, sems, shm, locals, calls
<1>4. Framing'
  BY <1>1, ThreeSemAssumption DEF CheckBlockedAtEnd, WriteReadBlocked, TypeOK, Framing, InTransfer, Owns, Proc, Other, sems, shm, locals, calls
<1>5. Sending(p)' /\ Taking(p)'
  BY <1>1 DEF CheckBlockedAtEnd, TypeOK, Sending, Taking, Started, InTransfer, InArea, Taken, Area, AreaSize, Owns, sems, shm, locals, calls
<1>6. Sending(o)' /\ Taking(o)'
  BY <1>1 DEF CheckBlockedAtEnd, TypeOK, Sending, Taking, Started, InTransfer, InArea, Taken, Area, AreaSize, Owns, sems, shm, locals, calls
<1> QED BY <1>1, <1>2, <1>3, <1>4, <1>5, <1>6 DEF Bytes

\* A transfer that returns leaves nothing behind.
LEMMA PostTransmitBytes ==
  ASSUME Control, Bytes, NEW p \in Proc, PostTransmit(p)
  PROVE  Bytes'
<1> USE Pair DEF Turn, At, Transmitting, Receiving, Leading, Awaiting, Following
<1> DEFINE o == Other(p)
<1>1. Turn(p) /\ Turn(o) /\ o \in Proc /\ o # p /\ Other(o) = p /\ Sending(p) /\ Sending(o) /\ Taking(p) /\ Taking(o)
      /\ TypeOK /\ NoThrow /\ Framing /\ ~ (Owns(p) /\ Owns(o)) /\ pc \in [Proc -> Label]
  BY EitherWay DEF Control, ControlType, Bytes
<1>2. TypeOK'
  BY <1>1 DEF PostTransmit, TypeOK, Label, sems, shm, locals, calls
<1>3. NoThrow'
  BY <1>1 DEF PostTransmit, WriteReadBlocked, TypeOK, NoThrow, Label, sems, shm, locals, calls
<1>4. Framing'
  BY <1>1, ThreeSemAssumption DEF PostTransmit, WriteReadBlocked, TypeOK, Framing, InTransfer, Owns, Proc, Other, sems, shm, locals, calls
<1>5. Sending(p)' /\ Taking(p)'
  BY <1>1 DEF PostTransmit, TypeOK, Sending, Taking, Started, InTransfer, InArea, Taken, Area, AreaSize, Owns, sems, shm, locals, calls
<1>6. Sending(o)' /\ Taking(o)'
  BY <1>1 DEF PostTransmit, TypeOK, Sending, Taking, Started, InTransfer, InArea, Taken, Area, AreaSize, Owns, sems, shm, locals, calls
<1> QED BY <1>1, <1>2, <1>3, <1>4, <1>5, <1>6 DEF Bytes

\* A receiver that takes its turn finds a chunk.
LEMMA WaitReadBytes ==
  ASSUME Control, Bytes, NEW p \in Proc, WaitRead(p)
  PROVE  Bytes'
<1> USE Pair DEF Turn, At, Transmitting, Receiving, Leading, Awaiting, Following
<1> DEFINE o == Other(p)
<1>1. Turn(p) /\ Turn(o) /\ o \in Proc /\ o # p /\ Other(o) = p /\ Sending(p) /\ Sending(o) /\ Taking(p) /\ Taking(o)
      /\ TypeOK /\ NoThrow /\ Framing /\ ~ (Owns(p) /\ Owns(o)) /\ pc \in [Proc -> Label]
  BY EitherWay DEF Control, ControlType, Bytes
<1>2. TypeOK'
  BY <1>1 DEF WaitRead, TypeOK, Label, sems, shm, locals, calls
<1>3. NoThrow'
  BY <1>1 DEF WaitRead, WriteReadBlocked, TypeOK, NoThrow, Label, sems, shm, locals, calls
<1>4. Framing'
  BY <1>1, ThreeSemAssumption DEF WaitRead, WriteReadBlocked, TypeOK, Framing, InTransfer, Owns, Proc, Other, sems, shm, locals, calls
<1>5. Sending(p)' /\ Taking(p)'
  BY <1>1 DEF WaitRead, TypeOK, Sending, Taking, Started, InTransfer, InArea, Taken, Area, AreaSize, Owns, sems, shm, locals, calls
<1>6. Sending(o)' /\ Taking(o)'
  BY <1>1 DEF WaitRead, TypeOK, Sending, Taking, Started, InTransfer, InArea, Taken, Area, AreaSize, Owns, sems, shm, locals, calls
<1> QED BY <1>1, <1>2, <1>3, <1>4, <1>5, <1>6 DEF Bytes

\* The receiver takes the transmitter's chunk, never more than its caller has
\* room for, and knows the last one when the transmitter does.
LEMMA TakeSharedBytes ==
  ASSUME Control, Bytes, NEW p \in Proc, TakeShared(p)
  PROVE  Bytes'
<1> USE Pair DEF Turn, At, Transmitting, Receiving, Leading, Awaiting, Following
<1> DEFINE o == Other(p)
<1>1. Turn(p) /\ Turn(o) /\ o \in Proc /\ o # p /\ Other(o) = p /\ Sending(p) /\ Sending(o) /\ Taking(p) /\ Taking(o)
      /\ TypeOK /\ NoThrow /\ Framing /\ ~ (Owns(p) /\ Owns(o)) /\ pc \in [Proc -> Label]
  BY EitherWay DEF Control, ControlType, Bytes
<1> DEFINE size  == IF first[p] THEN nbytes ELSE total[p]
           piece == Minimum(AreaSize(p), size - count[p])
           area  == IF ifHeader[p] THEN hdata ELSE bdata
<1>2. /\ pc[p] = "r_take" /\ pc[o] \in Awaiting /\ wsem = 0 /\ rsem = 0
      /\ InArea(o) /\ InTransfer(o) /\ Taken(o) = count[o] - chunkBytes[o]
      /\ pc[p] \in Receiving /\ pc[o] \in Transmitting
  BY <1>1 DEF TakeShared, InArea, InTransfer, Taken, Owns
<1>3. /\ nbytes = Len(buf[o]) /\ Len(buf[o]) \in Nat /\ ~ first[o]
      /\ chunkBytes[o] > 0 <=> pc[o] = "t_waitW"
  BY <1>1, <1>2 DEF Sending, TypeOK
<1>4. ifHeader[p] = ifHeader[o] /\ (first[p] => nbytes <= Capacity(p))
  <2>1. CASE p = Viewer
    <3>1. o = Device /\ Len(buf[Device]) \in Nat \ {0}
      BY <1>2, <2>1, ThreeSemAssumption, NotEmpty DEF Other, Proc
    <3>2. owed = IF ifHeader[Device] THEN 0 ELSE Len(buf[Device])
      BY <1>1, <1>2, <3>1 DEF Framing
    <3>3. ifHeader[Viewer] <=> owed = 0
      BY <1>1, <1>2, <2>1 DEF Framing
    <3>4. ASSUME ifHeader[Device] PROVE Len(buf[Device]) = 1
      <4>1. buf[Device] = << Len(pending) >>
        BY <1>1, <1>2, <3>1, <3>4 DEF Framing, Header
      <4> QED BY <4>1
    <3>5. ifHeader[Viewer] <=> ifHeader[Device]
      BY <3>1, <3>2, <3>3
    <3>6. nbytes <= Capacity(Viewer)
      <4>1. CASE ifHeader[Device]
        <5>1. nbytes = 1
          BY <1>3, <3>1, <3>4, <4>1
        <5>2. Capacity(Viewer) = 1
          BY <3>5, <4>1 DEF Capacity, HeaderSize
        <5> QED BY <5>1, <5>2
      <4>2. CASE ~ ifHeader[Device]
        BY <1>3, <3>1, <3>2, <3>5, <4>2 DEF Capacity
      <4> QED BY <4>1, <4>2
    <3>7. ifHeader[Viewer] = ifHeader[Device]
      <4>1. ifHeader \in [Proc -> BOOLEAN]
        BY <1>1 DEF TypeOK
      <4> QED BY <1>1, <2>1, <3>1, <3>5, <4>1
    <3> QED BY <2>1, <3>1, <3>6, <3>7
  <2>2. CASE p = Device
    <3>1. o = Viewer
      BY <2>2 DEF Other
    <3>2. ifHeader[Device] /\ ifHeader[Viewer] /\ Len(buf[Viewer]) = 1
      BY <1>1, <1>2, <2>2, <3>1 DEF Framing, Header
    <3> QED BY <1>1, <1>3, <2>2, <3>1, <3>2 DEF Capacity, HeaderSize, TypeOK
  <2> QED BY <2>1, <2>2 DEF Proc
<1>5. /\ count[p] = Taken(o) /\ count[p] \in Nat /\ Len(buf[p]) = count[p]
      /\ \A i \in 1..count[p] : buf[p][i] = buf[o][i]
  <2>1. CASE first[p]
    BY <2>1, <1>1, <1>2 DEF Sending, Taking, Started
  <2>2. CASE ~ first[p]
    BY <2>2, <1>1, <1>2 DEF Taking, Started, TypeOK
  <2> QED BY <2>1, <2>2
<1>6. /\ piece = chunkBytes[o] /\ piece \in Nat /\ piece <= AreaSize(p) /\ size = Len(buf[o])
      /\ area = Area(o) /\ count[p] + piece = count[o]
  <2>1. size = Len(buf[o])
    BY <1>1, <1>2, <1>3 DEF Taking, Started
  <2>2. piece = chunkBytes[o] /\ chunkBytes[o] \in Nat
    BY <1>1, <1>2, <1>4, <1>5, <2>1 DEF Sending, AreaSize, TypeOK
  <2>3. piece <= AreaSize(p)
    BY <2>1, <1>3, <1>5, AreaNotEmpty DEF Minimum
  <2> QED BY <1>1, <1>2, <1>4, <1>5, <2>1, <2>2, <2>3 DEF Area, TypeOK
<1>7. /\ pc'[p] = IF pc[o] = "t_waitW" THEN "r_postW" ELSE "r_postLast"
      /\ pc'[o] = pc[o] /\ first'[p] = FALSE /\ total'[p] = Len(buf[o])
      /\ ifHeader' = ifHeader /\ buf'[o] = buf[o] /\ count'[o] = count[o]
      /\ chunkBytes'[o] = chunkBytes[o] /\ wsem' = wsem
  <2>1. ~ (first[p] /\ nbytes > Capacity(p))
    BY <1>1, <1>3, <1>4 DEF Capacity, HeaderSize, TypeOK
  <2>2. pc'[p] = IF piece > 0 THEN "r_postW" ELSE "r_postLast"
    BY <1>1, <2>1 DEF TakeShared, TypeOK
  <2>3. (piece > 0 <=> pc[o] = "t_waitW") /\ total'[p] = size
    BY <1>1, <1>3, <1>6 DEF TakeShared, TypeOK
  <2> QED BY <1>1, <1>2, <1>6, <2>2, <2>3 DEF TakeShared, TypeOK, sems
<1>8. /\ buf'[p] \in Seq(Cell) /\ Len(buf'[p]) = count'[p] /\ count'[p] = count[o]
      /\ \A i \in 1..count[o] : buf'[p][i] = buf[o][i]
  <2>1. CASE pc[o] = "t_waitW"
    <3>1. buf'[p] = CopyOut(area, p, piece) /\ count'[p] = count[p] + piece
      BY <1>1, <1>2, <1>7, <2>1 DEF TakeShared, TypeOK
    <3>2. \A i \in 1..(count[p] + piece) :
            /\ CopyOut(area, p, piece)[i] = buf[o][i]
            /\ i > count[p] => i - count[p] \in 1..piece
      <4> SUFFICES ASSUME NEW i \in 1..(count[p] + piece)
                   PROVE  /\ CopyOut(area, p, piece)[i] = buf[o][i]
                          /\ i > count[p] => i - count[p] \in 1..piece
        OBVIOUS
      <4>1. CASE i <= count[p]
        BY <4>1, <1>5, <1>6 DEF CopyOut
      <4>2. CASE i > count[p]
        <5>1. i - count[p] \in 1..piece /\ count[p] + (i - count[p]) = i
          BY <4>2, <1>5, <1>6
        <5>2. area[i - count[p]] = buf[o][Taken(o) + (i - count[p])]
          BY <5>1, <1>1, <1>2, <1>6 DEF Sending
        <5> QED BY <4>2, <5>1, <5>2, <1>5, <1>6 DEF CopyOut
      <4> QED BY <4>1, <4>2, <1>5, <1>6
    <3>3. \A i \in 1..(count[p] + piece) : CopyOut(area, p, piece)[i] \in Cell
      <4>1. \A i \in 1..(count[p] + piece) : buf[o][i] \in Cell
        BY <1>1, <1>2, <1>5, <1>6 DEF TypeOK, Sending
      <4> QED BY <3>2, <4>1
    <3>4. CopyOut(area, p, piece) \in Seq(Cell) /\ Len(CopyOut(area, p, piece)) = count[p] + piece
      BY <3>3, <1>5, <1>6 DEF CopyOut
    <3> QED BY <3>1, <3>2, <3>4, <1>6
  <2>2. CASE pc[o] = "t_waitLast"
    <3>1. buf'[p] = buf[p] /\ count'[p] = count[p] /\ piece = 0
      BY <1>1, <1>2, <1>6, <1>7, <2>2 DEF TakeShared, TypeOK, Sending
    <3> QED BY <3>1, <1>1, <1>5, <1>6 DEF TypeOK
  <2> QED BY <2>1, <2>2, <1>2
<1>9. TypeOK'
  <2>1. buf' \in [Proc -> Seq(Cell)] /\ count' \in [Proc -> Nat] /\ chunkBytes' \in [Proc -> Nat]
    <3>1. CASE pc'[p] = "r_postW"
      <4>1. /\ buf' = [buf EXCEPT ![p] = CopyOut(area, p, piece)]
            /\ count' = [count EXCEPT ![p] = @ + piece]
            /\ chunkBytes' = [chunkBytes EXCEPT ![p] = piece]
        BY <3>1 DEF TakeShared
      <4>2. CopyOut(area, p, piece) \in Seq(Cell)
        BY <1>1, <1>8, <4>1 DEF TypeOK
      <4> QED BY <1>1, <1>6, <4>1, <4>2 DEF TypeOK
    <3>2. CASE pc'[p] # "r_postW"
      BY <1>1, <3>2 DEF TakeShared, TypeOK
    <3> QED BY <3>1, <3>2
  <2> QED BY <2>1, <1>1, <1>2, <1>6, <1>7 DEF TakeShared, TypeOK, Label, sems, shm, calls
<1>10. NoThrow'
  BY <1>1, <1>7 DEF NoThrow
<1>11. Framing'
  BY <1>1, <1>2, <1>7, ThreeSemAssumption DEF TakeShared, TypeOK, Framing, InTransfer, Owns, Proc, Other, sems, calls
<1>12. Taken(o)' = count[o] /\ InTransfer(o)' /\ ~ InArea(o)' /\ Started(p)'
  BY <1>1, <1>2, <1>7 DEF Taken, InArea, InTransfer, Owns, Started
<1>13. Sending(p)' /\ Taking(p)'
  <2>1. count[o] > 0
    BY <1>1, <1>2, <1>3 DEF Sending, TypeOK
  <2> QED BY <1>1, <1>2, <1>4, <1>7, <1>8, <1>12, <2>1 DEF Sending, Taking, Started
<1>14. Sending(o)' /\ Taking(o)'
  BY <1>1, <1>2, <1>7, <1>12 DEF TakeShared, TypeOK, Sending, Taking, Started, sems, shm
<1> QED BY <1>1, <1>9, <1>10, <1>11, <1>13, <1>14 DEF Bytes

\* A receiver that hands the turn back has the whole chunk.
LEMMA PostWriteBytes ==
  ASSUME Control, Bytes, NEW p \in Proc, PostWrite(p)
  PROVE  Bytes'
<1> USE Pair DEF Turn, At, Transmitting, Receiving, Leading, Awaiting, Following
<1> DEFINE o == Other(p)
<1>1. Turn(p) /\ Turn(o) /\ o \in Proc /\ o # p /\ Other(o) = p /\ Sending(p) /\ Sending(o) /\ Taking(p) /\ Taking(o)
      /\ TypeOK /\ NoThrow /\ Framing /\ ~ (Owns(p) /\ Owns(o)) /\ pc \in [Proc -> Label]
  BY EitherWay DEF Control, ControlType, Bytes
<1>2. TypeOK'
  BY <1>1 DEF PostWrite, TypeOK, Label, shm, locals, calls
<1>3. NoThrow'
  BY <1>1 DEF PostWrite, TypeOK, NoThrow, Label
<1>4. Framing'
  <2>1. pc[p] = "r_postW" /\ pc[o] = "t_waitW" /\ pc'[p] = "r_waitR" /\ pc'[o] = pc[o]
    BY <1>1 DEF PostWrite, Taking
  <2>2. InTransfer(Device)' <=> InTransfer(Device)
    BY <1>1, <2>1 DEF InTransfer, Owns, Proc
  <2> QED BY <1>1, <2>1, <2>2 DEF PostWrite, Framing, Proc, locals, calls
<1>5. Sending(p)' /\ Taking(p)'
  BY <1>1 DEF PostWrite, TypeOK, Sending, Taking, Started, InTransfer, InArea, Taken, Owns, shm, locals
<1>6. Sending(o)' /\ Taking(o)'
  BY <1>1 DEF PostWrite, TypeOK, Sending, Taking, Started, InTransfer, InArea, Taken, Area, AreaSize, Owns, shm, locals
<1> QED BY <1>1, <1>2, <1>3, <1>4, <1>5, <1>6 DEF Bytes

\* A reception that ends tells the viewer what the device announced.
LEMMA PostWriteLastBytes ==
  ASSUME Control, Bytes, NEW p \in Proc, PostWriteLast(p)
  PROVE  Bytes'
<1> USE Pair DEF Turn, At, Transmitting, Receiving, Leading, Awaiting, Following
<1> DEFINE o == Other(p)
<1>1. Turn(p) /\ Turn(o) /\ o \in Proc /\ o # p /\ Other(o) = p /\ Sending(p) /\ Sending(o) /\ Taking(p) /\ Taking(o)
      /\ TypeOK /\ NoThrow /\ Framing /\ ~ (Owns(p) /\ Owns(o)) /\ pc \in [Proc -> Label]
  BY EitherWay DEF Control, ControlType, Bytes
<1>2. /\ pc[p] = "r_postLast" /\ pc[o] = "t_waitLast" /\ wsem = 0 /\ wsem' = 1
      /\ pc'[p] = "idle" /\ pc'[o] = "t_waitLast" /\ pc[p] \in Receiving /\ pc[o] \in Transmitting
      /\ Started(p) /\ InTransfer(o)
  BY <1>1 DEF PostWriteLast, Taking, Started, InTransfer, Owns
<1>3. Framing' /\ owed' \in Nat
  <2>1. CASE p = Viewer
    <3>1. o = Device
      BY <2>1, ThreeSemAssumption DEF Other
    <3>2. /\ ifHeader[p] = ifHeader[o] /\ Taken(o) = count[o] /\ count[o] = Len(buf[o])
          /\ count[p] = count[o] /\ \A i \in 1..count[p] : buf[p][i] = buf[o][i]
      BY <1>1, <1>2 DEF Sending, Taking, Taken, InArea
    <3>3. owed' = Len(pending) /\ owed' \in Nat
      <4>1. CASE ifHeader[p]
        <5>1. buf[o] = Header(Len(pending)) /\ Len(pending) \in Nat
          BY <1>1, <1>2, <3>1, <3>2, <4>1, ThreeSemAssumption DEF Framing, TypeOK
        <5>2. buf[p][1] = Len(pending)
          BY <5>1, <3>2 DEF Header
        <5> QED BY <5>1, <5>2, <2>1, <4>1 DEF PostWriteLast
      <4>2. CASE ~ ifHeader[p]
        <5>1. pending = << >>
          BY <1>1, <1>2, <3>1, <3>2, <4>2 DEF Framing
        <5> QED BY <5>1, <2>1, <4>2 DEF PostWriteLast
      <4> QED BY <4>1, <4>2
    <3> QED BY <1>1, <1>2, <2>1, <3>1, <3>3 DEF PostWriteLast, Framing, InTransfer, locals
  <2>2. CASE p = Device
    <3>1. o = Viewer /\ owed' = owed
      BY <2>2, ThreeSemAssumption DEF Other, PostWriteLast
    <3> QED BY <1>1, <1>2, <2>2, <3>1 DEF PostWriteLast, Framing, InTransfer, Owns, TypeOK, locals
  <2> QED BY <2>1, <2>2 DEF Proc
<1>4. TypeOK'
  BY <1>1, <1>3 DEF PostWriteLast, TypeOK, Label, shm, locals
<1>5. NoThrow'
  BY <1>1 DEF PostWriteLast, TypeOK, NoThrow, Label
<1>6. Sending(p)' /\ Taking(p)'
  BY <1>1 DEF PostWriteLast, TypeOK, Sending, Taking, Started, InTransfer, InArea, Taken, Owns, shm, locals
<1>7. Sending(o)' /\ Taking(o)'
  BY <1>1 DEF PostWriteLast, TypeOK, Sending, Taking, Started, InTransfer, InArea, Taken, Area, AreaSize, Owns, shm, locals
<1> QED BY <1>1, <1>3, <1>4, <1>5, <1>6, <1>7 DEF Bytes

\* So does every statement.
LEMMA TransferBytes ==
  ASSUME Control, Bytes, NEW p \in Proc, Transfer(p)
  PROVE  Bytes'
BY WaitTransmitBytes, CheckBlockedAtStartBytes, PostWriteToStartBytes, WaitWriteBytes,
   FillSharedBytes, PostReadBytes, WaitLastBytes, CheckBlockedAtEndBytes,
   PostTransmitBytes, WaitReadBytes, TakeSharedBytes, PostWriteBytes, PostWriteLastBytes
   DEF Transfer

-----------------------------------------------------------------------------
(* The calls.                                                              *)

\* What a call that p enters leaves of the other's transfer.
LEMMA EnterBytes ==
  ASSUME Control, Bytes, NEW p \in Proc, NEW label \in {"t_waitT", "r_waitR"},
         NEW header \in BOOLEAN, NEW bytes \in Seq(Cell), Enter(p, label, header, bytes),
         label = "r_waitR" => bytes = << >>,
         pending' \in Payload, owed' \in Nat
  PROVE  TypeOK' /\ NoThrow' /\ \A q \in Proc : Sending(q)' /\ Taking(q)'
<1> USE Pair DEF Turn, At, Transmitting, Receiving, Leading, Awaiting, Following
<1> DEFINE o == Other(p)
<1>1. Turn(p) /\ Turn(o) /\ o \in Proc /\ o # p /\ Other(o) = p /\ Sending(p) /\ Sending(o) /\ Taking(p) /\ Taking(o)
      /\ TypeOK /\ NoThrow /\ ~ (Owns(p) /\ Owns(o)) /\ pc \in [Proc -> Label]
  BY EitherWay DEF Control, ControlType, Bytes
<1>2. TypeOK' /\ NoThrow'
  BY <1>1 DEF Enter, TypeOK, NoThrow, Label, sems, shm
<1>3. Sending(p)' /\ Taking(p)'
  BY <1>1 DEF Enter, TypeOK, Sending, Taking, Started, InTransfer, InArea, Taken, Owns, sems, shm
<1>4. Sending(o)' /\ Taking(o)'
  BY <1>1 DEF Enter, TypeOK, Sending, Taking, Started, InTransfer, InArea, Taken, Area, AreaSize, Owns, sems, shm
<1> QED BY <1>1, <1>2, <1>3, <1>4

\* The calls follow the discipline that frames the data.
LEMMA CallBytes ==
  ASSUME Control, Bytes, TransmitData \/ \E p \in Proc : Call(p)
  PROVE  Bytes'
<1> USE DEF Transmitting, Receiving
<1>0. /\ TypeOK /\ Framing /\ Device # Viewer /\ Device \in Proc /\ Viewer \in Proc
      /\ << >> \in Payload /\ Payload \subseteq Seq(Byte)
      /\ \A data \in Payload : data \in Seq(Cell) /\ Len(data) \in Nat
  BY ThreeSemAssumption DEF Bytes, Proc, Cell
<1>1. CASE TransmitData
  <2>1. TypeOK' /\ NoThrow' /\ \A q \in Proc : Sending(q)' /\ Taking(q)'
    BY <1>0, <1>1, EnterBytes DEF TransmitData, TypeOK
  <2>2. Framing'
    BY <1>0, <1>1 DEF TransmitData, Enter, At, Framing, TypeOK, InTransfer, Owns, sems
  <2> QED BY <2>1, <2>2 DEF Bytes
<1>2. ASSUME NEW p \in Proc, TransmitHeader(p) PROVE Bytes'
  <2>1. PICK data \in Payload :
          /\ p = Device => pending = << >>
          /\ p = Viewer => owed = 0 /\ data = << >>
          /\ Enter(p, "t_waitT", TRUE, Header(Len(data)))
          /\ pending' = IF p = Device THEN data ELSE pending
          /\ UNCHANGED owed
    BY <1>2 DEF TransmitHeader
  <2>2. Header(Len(data)) \in Seq(Cell)
    BY <1>0 DEF Header, Cell
  <2>3. pending' \in Payload /\ owed' \in Nat
    BY <1>0, <2>1 DEF TypeOK
  <2>4. TypeOK' /\ NoThrow' /\ \A q \in Proc : Sending(q)' /\ Taking(q)'
    BY <2>1, <2>2, <2>3, EnterBytes
  <2>5. Framing'
    BY <1>0, <2>1 DEF Enter, At, Framing, TypeOK, InTransfer, Owns, Header, Proc, sems
  <2> QED BY <2>4, <2>5 DEF Bytes
<1>3. ASSUME NEW p \in Proc, Receive(p) PROVE Bytes'
  <2>1. TypeOK' /\ NoThrow' /\ \A q \in Proc : Sending(q)' /\ Taking(q)'
    BY <1>0, <1>3, EnterBytes DEF Receive, TypeOK, calls
  <2>2. Framing'
    BY <1>0, <1>3 DEF Receive, Enter, At, Framing, TypeOK, InTransfer, Owns, Proc, sems, calls
  <2> QED BY <2>1, <2>2 DEF Bytes
<1> QED BY <1>1, <1>2, <1>3 DEF Call

-----------------------------------------------------------------------------
\* At first nothing is on its way.
LEMMA BytesInit == Init => Bytes
<1> SUFFICES ASSUME Init PROVE Bytes
  OBVIOUS
<1>1. TypeOK
  BY ThreeSemAssumption DEF Init, TypeOK, Label, HeaderSize, Cell
<1>2. NoThrow /\ \A p \in Proc : Sending(p) /\ Taking(p)
  BY DEF Init, NoThrow, Sending, Taking, Started, Transmitting, Receiving
<1>3. Framing
  BY ThreeSemAssumption DEF Init, Framing, InTransfer, Owns, Transmitting, Receiving, Proc
<1> QED BY <1>1, <1>2, <1>3 DEF Bytes

\* The strengthening is inductive with that of the control.
LEMMA BytesStep == Control /\ Bytes /\ [Next]_vars => Bytes'
<1> SUFFICES ASSUME Control, Bytes, [Next]_vars PROVE Bytes'
  OBVIOUS
<1>1. CASE TransmitData \/ \E p \in Proc : Call(p)
  BY <1>1, CallBytes
<1>2. ASSUME NEW p \in Proc, Transfer(p) PROVE Bytes'
  BY <1>2, TransferBytes
<1>3. CASE UNCHANGED vars
  BY <1>3 DEF Bytes, TypeOK, NoThrow, Framing, Sending, Taking, Started, InTransfer, InArea,
     Taken, Area, AreaSize, Owns, vars, sems, shm, locals, calls
<1> QED BY <1>1, <1>2, <1>3 DEF Next

\* The bytes on their way are where the two processes believe them to be.
THEOREM BytesInvariant == Spec => []Bytes
BY BytesInit, BytesStep, ControlInvariant, PTL DEF Spec

\* Every variable of the transfer keeps its type.
THEOREM TypeHolds == Spec => []TypeOK
BY BytesInvariant, PTL DEF Bytes

\* No throw of transmitBytes or receiveBytes is ever reached.
THEOREM NoThrowHolds == Spec => []NoThrow
BY BytesInvariant, PTL DEF Bytes

\* A reception is a prefix of the transmission it meets, whatever the payload
\* and the size of the area.
THEOREM ReceivedIsPrefixHolds == Spec => []ReceivedIsPrefix
<1>1. Bytes => ReceivedIsPrefix
  <2> SUFFICES ASSUME Bytes, NEW p \in Proc, pc[p] \in Receiving, ~ first[p]
               PROVE  /\ Owns(Other(p)) /\ ifHeader[p] = ifHeader[Other(p)]
                      /\ count[p] <= Len(buf[Other(p)])
                      /\ buf[p] = SubSeq(buf[Other(p)], 1, count[p])
    BY DEF ReceivedIsPrefix
  <2> DEFINE o == Other(p)
  <2>1. /\ o \in Proc /\ InTransfer(o) /\ ifHeader[p] = ifHeader[o] /\ count[p] = Taken(o)
        /\ Len(buf[p]) = count[p] /\ \A i \in 1..count[p] : buf[p][i] = buf[o][i]
    BY Pair DEF Bytes, Taking, Started
  <2>2. buf[p] \in Seq(Cell) /\ buf[o] \in Seq(Cell) /\ count[p] \in Nat
    BY <2>1 DEF Bytes, TypeOK
  <2>3. count[p] <= Len(buf[o])
    BY <2>1, <2>2 DEF Bytes, Sending, Taken, TypeOK, InTransfer, Owns
  <2>4. \A i \in 1..count[p] : buf[o][i] \in Cell
    BY <2>2, <2>3, ElementOfSeq
  <2>5. /\ SubSeq(buf[o], 1, count[p]) \in Seq(Cell)
        /\ Len(SubSeq(buf[o], 1, count[p])) = count[p]
        /\ \A i \in 1..count[p] : SubSeq(buf[o], 1, count[p])[i] = buf[o][i]
    BY <2>2, <2>4, SubSeqProperties
  <2>6. buf[p] = SubSeq(buf[o], 1, count[p])
    BY <2>1, <2>2, <2>5, SeqEqual
  <2> QED BY <2>1, <2>3, <2>6 DEF InTransfer
<1> QED BY <1>1, BytesInvariant, PTL

-----------------------------------------------------------------------------
(* The rendezvous.                                                         *)

\* The bytes of p that its caller knows of: those it receives, only at the end.
Held(p) == IF pc[p] \in Receiving THEN << >> ELSE buf[p]

\* A step that changes no call, and no bytes that a caller knows of, is none of the rendezvous.
LEMMA Unseen ==
  ASSUME NEW p \in Proc, CallOf(p)' = CallOf(p), CallOf(Other(p))' = CallOf(Other(p)),
         Held(p)' = Held(p), Held(Other(p))' = Held(Other(p)), UNCHANGED calls
  PROVE  UNCHANGED Rendezvous!aVars
<1>1. \A q \in Proc : CallOf(q)' = CallOf(q) /\ Held(q)' = Held(q)
  BY Pair
<1>2. [q \in Proc |-> CallOf(q)]' = [q \in Proc |-> CallOf(q)]
  BY <1>1
<1>3. [q \in Proc |-> IF pc[q] \in Receiving THEN << >> ELSE buf[q]]' = [q \in Proc |-> IF pc[q] \in Receiving THEN << >> ELSE buf[q]]
  BY <1>1 DEF Held
<1> QED BY <1>2, <1>3 DEF Rendezvous!aVars, calls

\* What a statement does to the label of its process, and to no other.
LEMMA Moves ==
  ASSUME Control, NEW p \in Proc, NEW from, NEW to, At(p, from, to)
  PROVE  pc[p] = from /\ pc'[p] = to /\ pc'[Other(p)] = pc[Other(p)]
BY Pair DEF Control, ControlType, At

\* Before the last piece is taken a transmission is one that nobody has met.
LEMMA TransmitterUnseen ==
  ASSUME Control, Bytes, NEW p \in Proc,
         \/ WaitTransmit(p) \/ CheckBlockedAtStart(p) \/ PostWriteToStart(p) \/ WaitWrite(p)
         \/ FillShared(p) \/ PostRead(p) \/ WaitLast(p) \/ CheckBlockedAtEnd(p)
  PROVE  UNCHANGED Rendezvous!aVars
<1> DEFINE q == Other(p)
<1>1. /\ Turn(p) /\ ~ (Owns(p) /\ Owns(q)) /\ wsem \in Nat /\ q # p /\ q \in Proc
  BY Pair, EitherWay DEF Control, ControlType
<1> HIDE DEF q
<1>2. UNCHANGED calls /\ buf' = buf
  BY DEF WaitTransmit, CheckBlockedAtStart, PostWriteToStart, WaitWrite, FillShared, PostRead, WaitLast, CheckBlockedAtEnd, locals
<1>3. CallOf(p)' = CallOf(p) /\ pc'[q] = pc[q] /\ pc[p] \in Transmitting /\ pc'[p] \in Transmitting
  <2>1. CASE WaitTransmit(p)
    BY <2>1, Moves DEF WaitTransmit, CallOf, Transmitting, Receiving, q
  <2>2. CASE CheckBlockedAtStart(p)
    <3>1. WriteReadBlocked
      BY <1>1, <2>2, Moves DEF CheckBlockedAtStart, Turn, Leading, WriteReadBlocked
    <3> QED BY <2>2, <3>1, Moves DEF CheckBlockedAtStart, CallOf, Transmitting, Receiving, q
  <2>3. CASE PostWriteToStart(p)
    BY <2>3, Moves DEF PostWriteToStart, CallOf, Transmitting, Receiving, q
  <2>4. CASE WaitWrite(p)
    BY <2>4, Moves DEF WaitWrite, CallOf, Transmitting, Receiving, q
  <2>5. CASE FillShared(p)
    BY <2>5, Moves DEF FillShared, CallOf, Transmitting, Receiving, q
  <2>6. CASE PostRead(p)
    <3>1. wsem = 0 /\ wsem' = wsem
      BY <1>1, <2>6, Moves DEF PostRead, Turn, Leading
    <3> QED BY <2>6, <3>1, Moves DEF PostRead, CallOf, Transmitting, Receiving, q
  <2>7. CASE WaitLast(p)
    <3>1. wsem = 1
      BY <1>1, <2>7, Moves DEF WaitLast, Turn, Awaiting
    <3> QED BY <2>7, <3>1, Moves DEF WaitLast, CallOf, Transmitting, Receiving, q
  <2>8. CASE CheckBlockedAtEnd(p)
    <3>1. WriteReadBlocked
      BY <1>1, <2>8, Moves DEF CheckBlockedAtEnd, Turn, Leading, WriteReadBlocked
    <3> QED BY <2>8, <3>1, Moves DEF CheckBlockedAtEnd, CallOf, Transmitting, Receiving, q
  <2> QED BY <2>1, <2>2, <2>3, <2>4, <2>5, <2>6, <2>7, <2>8
<1>4. CallOf(q)' = CallOf(q)
  <2>1. CASE pc[q] = "t_waitLast"
    <3>1. ~ Owns(p)
      BY <1>1, <2>1 DEF Owns, Transmitting
    <3>2. pc[p] = "t_waitT"
      BY <1>3, <3>1 DEF Owns
    <3>3. WaitTransmit(p)
      BY <3>2, Moves DEF CheckBlockedAtStart, PostWriteToStart, WaitWrite, FillShared, PostRead, WaitLast, CheckBlockedAtEnd
    <3>4. wsem' = wsem
      BY <3>3 DEF WaitTransmit
    <3> QED BY <1>3, <3>4 DEF CallOf
  <2>2. CASE pc[q] # "t_waitLast"
    BY <1>3, <2>2 DEF CallOf
  <2> QED BY <2>1, <2>2
<1>5. Held(p)' = Held(p) /\ Held(q)' = Held(q)
  BY <1>2, <1>3 DEF Held, Transmitting, Receiving
<1> QED BY <1>2, <1>3, <1>4, <1>5, Unseen DEF q

\* Before the last post a reception is one that nobody has met.
LEMMA ReceiverUnseen ==
  ASSUME Control, Bytes, Bytes', NEW p \in Proc, WaitRead(p) \/ TakeShared(p) \/ PostWrite(p)
  PROVE  UNCHANGED Rendezvous!aVars
<1> DEFINE q == Other(p)
<1>1. UNCHANGED calls /\ q # p /\ q \in Proc
  BY Pair DEF WaitRead, TakeShared, PostWrite
<1>2. pc[p] \in Receiving /\ pc'[p] \in Receiving /\ pc'[q] = pc[q] /\ buf'[q] = buf[q] /\ (pc[q] = "t_waitLast" => wsem' = wsem)
  <2>1. CASE WaitRead(p)
    BY <2>1, Moves DEF WaitRead, Receiving, locals
  <2>2. CASE TakeShared(p)
    <3>1. pc'[p] # "threw"
      BY DEF Bytes, NoThrow
    <3>2. /\ At(p, "r_take", IF first[p] /\ nbytes > Capacity(p) THEN "threw"
                     ELSE IF Minimum(AreaSize(p), (IF first[p] THEN nbytes ELSE total[p]) - count[p]) > 0 THEN "r_postW" ELSE "r_postLast")
          /\ wsem' = wsem
      BY <2>2 DEF TakeShared, sems
    <3>3. pc[p] = "r_take" /\ pc'[p] \in {"threw", "r_postW", "r_postLast"} /\ pc'[q] = pc[q]
      BY <3>2, Moves
    <3>4. buf'[q] = buf[q]
      <4>1. buf \in [Proc -> Seq(Cell)]
        BY DEF Bytes, TypeOK
      <4> QED BY <1>1, <2>2, <4>1 DEF TakeShared
    <3> QED BY <3>1, <3>2, <3>3, <3>4 DEF Receiving
  <2>3. CASE PostWrite(p)
    <3>1. pc[p] = "r_postW" /\ pc'[p] = "r_waitR" /\ pc'[q] = pc[q] /\ buf' = buf
      BY <2>3, Moves DEF PostWrite, locals
    <3>2. pc[q] = "t_waitW"
      BY <3>1 DEF Bytes, Taking
    <3> QED BY <3>1, <3>2 DEF Receiving
  <2> QED BY <2>1, <2>2, <2>3
<1> HIDE DEF q
<1>3. CallOf(p)' = CallOf(p) /\ CallOf(q)' = CallOf(q)
  <2>1. CallOf(p) = "receive" /\ CallOf(p)' = "receive"
    BY <1>2 DEF CallOf, Receiving, Transmitting
  <2>2. CASE pc[q] = "t_waitLast"
    BY <1>2, <2>1, <2>2 DEF CallOf
  <2>3. CASE pc[q] # "t_waitLast"
    BY <1>2, <2>1, <2>3 DEF CallOf
  <2> QED BY <2>1, <2>2, <2>3
<1>4. Held(p)' = Held(p) /\ Held(q)' = Held(q)
  BY <1>2 DEF Held
<1> QED BY <1>1, <1>3, <1>4, Unseen DEF q

\* The last post of a reception is the meeting.
LEMMA Meets ==
  ASSUME Control, Bytes, NEW p \in Proc, PostWriteLast(p)
  PROVE  Rendezvous!ADeliver(p)
<1> DEFINE q == Other(p)
<1>1. q \in Proc /\ q # p /\ Turn(p) /\ Turn(q) /\ Other(q) = p
  BY Pair DEF Control
<1>2. /\ pc[p] = "r_postLast" /\ pc'[p] = "idle" /\ pc'[q] = pc[q] /\ wsem' = wsem + 1
      /\ buf' = buf /\ pending' = pending
      /\ owed' = IF p # Viewer THEN owed ELSE IF ifHeader[p] THEN buf[p][1] ELSE 0
  BY Moves DEF PostWriteLast, locals
<1>3. Taking(p) /\ Sending(q) /\ Framing /\ buf \in [Proc -> Seq(Cell)]
  BY <1>1 DEF Bytes, TypeOK
<1>4. pc[q] = "t_waitLast"
  BY <1>2, <1>3 DEF Taking, q
<1> HIDE DEF q
<1>5. wsem = 0
  BY <1>1, <1>2, <1>4 DEF Turn, Following, q
<1>6. CallOf(p) = "receive" /\ CallOf(q) = "transmit" /\ CallOf(p)' = "idle" /\ CallOf(q)' = "transmitted"
  BY <1>2, <1>4, <1>5 DEF CallOf, Receiving, Transmitting
<1>7. buf[p] = buf[q]
  <2>1. Started(p) /\ count[q] = Len(buf[q])
    BY <1>2, <1>3, <1>4 DEF Taking, Sending, Started, Receiving, Transmitting
  <2>2. ~ InArea(q)
    BY <1>1, <1>2, <1>4 DEF InArea
  <2>3. count[p] = count[q] /\ Len(buf[p]) = count[p] /\ \A i \in 1..count[p] : buf[p][i] = buf[q][i]
    BY <1>3, <2>1, <2>2 DEF Taking, Taken, q
  <2> QED BY <1>1, <1>3, <2>1, <2>3, SeqEqual
<1>8. /\ [r \in Proc |-> CallOf(r)]' = [[r \in Proc |-> CallOf(r)] EXCEPT ![p] = "idle", ![q] = "transmitted"]
      /\ [r \in Proc |-> CallOf(r)][p] = "receive" /\ [r \in Proc |-> CallOf(r)][q] = "transmit"
  <2>1. \A r \in Proc : r = p \/ r = q
    BY Pair DEF q
  <2> QED BY <1>1, <1>6, <2>1
<1>9. Held(p)' = Held(q) /\ Held(q)' = Held(q) /\ Held(q) = buf[q]
  BY <1>2, <1>4, <1>7 DEF Held, Receiving
<1>10. [r \in Proc |-> Held(r)]' = [[r \in Proc |-> Held(r)] EXCEPT ![p] = Held(q)]
  <2>1. \A r \in Proc : r = p \/ r = q
    BY Pair DEF q
  <2> QED BY <1>1, <1>9, <2>1
<1>11. owed' = IF p # Viewer THEN owed ELSE IF owed = 0 THEN Held(Device)[1] ELSE 0
  <2>1. CASE p = Viewer
    <3>1. q = Device
      BY <2>1, ThreeSemAssumption DEF q, Other
    <3>2. ifHeader[Viewer] <=> owed = 0
      BY <1>2, <1>3, <2>1 DEF Framing, Receiving
    <3> QED BY <1>2, <1>7, <1>9, <2>1, <3>1, <3>2
  <2>2. CASE p # Viewer
    BY <1>2, <2>2
  <2> QED BY <2>1, <2>2
<1>12. Device \in Proc /\ Rendezvous!Other(p) = q
  BY DEF Proc, q, Other, Rendezvous!Other
<1> QED BY <1>1, <1>2, <1>8, <1>10, <1>11, <1>12 DEF Rendezvous!ADeliver, Held

\* The return of a transmission is the transmitter's after the meeting.
LEMMA Returns ==
  ASSUME Control, NEW p \in Proc, PostTransmit(p)
  PROVE  Rendezvous!ATransmitReturns(p)
<1> DEFINE q == Other(p)
<1>1. q \in Proc /\ q # p
  BY Pair
<1>2. pc[p] = "t_postT" /\ pc'[p] = "idle" /\ pc'[q] = pc[q] /\ wsem' = wsem /\ buf' = buf /\ UNCHANGED calls
  BY Moves DEF PostTransmit, locals
<1> HIDE DEF q
<1>3. CallOf(p) = "transmitted" /\ CallOf(p)' = "idle" /\ CallOf(q)' = CallOf(q)
  BY <1>2 DEF CallOf, Receiving, Transmitting
<1>4. Held(p)' = Held(p) /\ Held(q)' = Held(q)
  BY <1>2 DEF Held, Receiving
<1>5. \A r \in Proc : r = p \/ r = q
  BY Pair DEF q
<1>6. /\ [r \in Proc |-> CallOf(r)]' = [[r \in Proc |-> CallOf(r)] EXCEPT ![p] = "idle"]
      /\ [r \in Proc |-> CallOf(r)][p] = "transmitted"
  BY <1>1, <1>3, <1>5
<1>7. [r \in Proc |-> Held(r)]' = [r \in Proc |-> Held(r)]
  BY <1>4, <1>5
<1> QED BY <1>2, <1>6, <1>7 DEF Rendezvous!ATransmitReturns, Held, calls

\* A call begins in the rendezvous as it does in the code.
LEMMA Begins ==
  ASSUME Control, TypeOK, NEW p \in Proc, NEW label \in {"t_waitT", "r_waitR"}, NEW header, NEW bytes,
         Enter(p, label, header, bytes), label = "r_waitR" => bytes = << >>
  PROVE  Rendezvous!Begin(p, IF label = "r_waitR" THEN "receive" ELSE "transmit", bytes)
<1> DEFINE q == Other(p)
           how == IF label = "r_waitR" THEN "receive" ELSE "transmit"
<1>1. q \in Proc /\ q # p
  BY Pair
<1>2. pc[p] = "idle" /\ pc'[p] = label /\ pc'[q] = pc[q] /\ wsem' = wsem
  BY Moves DEF Enter, sems
<1>3. buf'[p] = bytes /\ buf'[q] = buf[q]
  BY <1>1 DEF Enter, TypeOK
<1> HIDE DEF q
<1>4. CallOf(p) = "idle" /\ CallOf(p)' = how /\ CallOf(q)' = CallOf(q)
  BY <1>2 DEF CallOf, Receiving, Transmitting
<1>5. Held(p)' = bytes /\ Held(q)' = Held(q)
  BY <1>2, <1>3 DEF Held, Receiving
<1> HIDE DEF how
<1>6. \A r \in Proc : r = p \/ r = q
  BY Pair DEF q
<1>7. /\ [r \in Proc |-> CallOf(r)]' = [[r \in Proc |-> CallOf(r)] EXCEPT ![p] = how]
      /\ [r \in Proc |-> CallOf(r)][p] = "idle"
  BY <1>1, <1>4, <1>6
<1>8. [r \in Proc |-> Held(r)]' = [[r \in Proc |-> Held(r)] EXCEPT ![p] = bytes]
  BY <1>1, <1>5, <1>6
<1>9. Rendezvous!Begin(p, how, bytes)
  BY <1>7, <1>8 DEF Rendezvous!Begin, Held
<1> QED BY <1>9 DEF how

\* Every step of a transfer is one of the rendezvous or none.
LEMMA RendezvousStep == ASSUME Control, Bytes, Bytes', [Next]_vars PROVE [Rendezvous!ANext]_(Rendezvous!aVars)
<1>1. TypeOK
  BY DEF Bytes
<1>2. Rendezvous!Proc = Proc /\ Device \in Proc /\ \A n : Rendezvous!Header(n) = Header(n)
  BY DEF Rendezvous!Proc, Proc, Rendezvous!Header, Header
<1>3. CASE TransmitData
  <2>1. pending # << >> /\ Enter(Device, "t_waitT", FALSE, pending) /\ pending' = << >> /\ UNCHANGED owed
    BY <1>3 DEF TransmitData
  <2>2. Rendezvous!Begin(Device, "transmit", pending)
    <3>1. PICK data : data = pending
      OBVIOUS
    <3>2. Device \in Proc /\ Enter(Device, "t_waitT", FALSE, data)
      BY <1>2, <2>1, <3>1
    <3>3. Rendezvous!Begin(Device, "transmit", data)
      BY <1>1, <3>2, Begins
    <3> QED BY <3>1, <3>3 DEF Rendezvous!Begin
  <2>3. Rendezvous!ATransmitData
    BY <2>1, <2>2 DEF Rendezvous!ATransmitData
  <2> QED BY <2>3 DEF Rendezvous!ANext
<1>4. ASSUME NEW p \in Proc, TransmitHeader(p) PROVE Rendezvous!ANext
  <2>1. PICK data \in Payload :
          /\ p = Device => pending = << >>
          /\ p = Viewer => owed = 0 /\ data = << >>
          /\ Enter(p, "t_waitT", TRUE, Header(Len(data)))
          /\ pending' = IF p = Device THEN data ELSE pending
          /\ UNCHANGED owed
    BY <1>4 DEF TransmitHeader
  <2>2. Rendezvous!Begin(p, "transmit", Rendezvous!Header(Len(data)))
    <3> DEFINE h == Header(Len(data))
    <3>1. Enter(p, "t_waitT", TRUE, h)
      BY <2>1
    <3> HIDE DEF h
    <3>2. Rendezvous!Begin(p, "transmit", h)
      BY <1>1, <3>1, Begins
    <3>3. Rendezvous!Header(Len(data)) = h
      BY <1>2 DEF h
    <3> QED BY <3>2, <3>3
  <2>3. Rendezvous!ATransmitHeader(p)
    BY <2>1, <2>2 DEF Rendezvous!ATransmitHeader
  <2> QED BY <1>2, <2>3 DEF Rendezvous!ANext
<1>5. ASSUME NEW p \in Proc, Receive(p) PROVE Rendezvous!ANext
  <2>1. /\ p = Device => pending = << >>
        /\ Enter(p, "r_waitR", p = Device \/ owed = 0, << >>)
        /\ UNCHANGED << pending, owed >>
    BY <1>5 DEF Receive, calls
  <2>2. Rendezvous!Begin(p, "receive", << >>)
    BY <1>1, <2>1, Begins
  <2>3. Rendezvous!AReceive(p)
    BY <2>1, <2>2 DEF Rendezvous!AReceive
  <2> QED BY <1>2, <2>3 DEF Rendezvous!ANext
<1>6. ASSUME NEW p \in Proc, Transfer(p) PROVE [Rendezvous!ANext]_(Rendezvous!aVars)
  <2>1. CASE PostWriteLast(p)
    <3>1. Rendezvous!ADeliver(p)
      BY <2>1, Meets
    <3> QED BY <1>2, <3>1 DEF Rendezvous!ANext
  <2>2. CASE PostTransmit(p)
    <3>1. Rendezvous!ATransmitReturns(p)
      BY <2>2, Returns
    <3> QED BY <1>2, <3>1 DEF Rendezvous!ANext
  <2>3. CASE ~ PostWriteLast(p) /\ ~ PostTransmit(p)
    <3>1. UNCHANGED Rendezvous!aVars
      BY <1>6, <2>3, TransmitterUnseen, ReceiverUnseen DEF Transfer
    <3> QED BY <3>1
  <2> QED BY <2>1, <2>2, <2>3
<1>7. CASE UNCHANGED vars
  <2>1. UNCHANGED << pc, buf, wsem, pending, owed >>
    BY <1>7 DEF vars, sems, locals, calls
  <2> QED BY <2>1 DEF Rendezvous!aVars, CallOf
<1>8. TransmitData \/ (\E p \in Proc : TransmitHeader(p) \/ Receive(p) \/ Transfer(p)) \/ UNCHANGED vars
  BY DEF Next, Call
<1> QED BY <1>3, <1>4, <1>5, <1>6, <1>7, <1>8

\* Every behaviour of the transfer starts as a rendezvous and goes on as one: a
\* reception returns with the bytes of the one transmission that is outstanding,
\* and no transmission returns before.
THEOREM ImplementsRendezvousSteps == Spec => Rendezvous!AInit /\ [][Rendezvous!ANext]_(Rendezvous!aVars)
<1>1. Init => Rendezvous!AInit
  BY DEF Init, Rendezvous!AInit, Rendezvous!Proc, Proc, CallOf, Receiving, Transmitting
<1>2. Control /\ Bytes /\ Bytes' /\ [Next]_vars => [Rendezvous!ANext]_(Rendezvous!aVars)
  BY RendezvousStep
<1> QED BY <1>1, <1>2, ControlInvariant, BytesInvariant, PTL DEF Spec
=============================================================================
