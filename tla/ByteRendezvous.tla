--------------------------- MODULE ByteRendezvous ---------------------------
(***************************************************************************)
(* What the pair PLMemoryMap::transmitBytes / PLMemoryMap::receiveBytes    *)
(* (drivers/wxwidgets_comms.cpp) promises its callers, the wxwidgets       *)
(* device and the wxPLViewer process: a rendezvous.  A transmission and a  *)
(* reception that are both outstanding meet, the receiver gets exactly     *)
(* the bytes of the transmitter, in one piece, and only then may the       *)
(* transmitter return.                                                     *)
(*                                                                         *)
(* The callers follow the discipline of wxPLDevice::TransmitBuffer and     *)
(* wxPlFrame::ReadTransmission: a header transmitted by the device names   *)
(* the amount of plot-buffer data that follows it, the device's next       *)
(* transmission is that data, and the viewer's next reception asks for     *)
(* that amount.  A header sent by the viewer is never followed by data.    *)
(***************************************************************************)
EXTENDS Naturals, Sequences

CONSTANTS Device, Viewer,   \* the two processes, different from each other
          Byte,             \* the bytes of a plot buffer
          Payload           \* the pieces of plot buffer the device may send, << >> too

Proc     == {Device, Viewer}
Other(p) == IF p = Device THEN Viewer ELSE Device

\* A MemoryMapHeader is one unit: plbufAmountToTransmit is what the
\* channel's users look at to frame the data that follows.
Header(amount) == << amount >>
Message        == Seq(Byte \cup Nat)

VARIABLES
  call,     \* call[p]: "idle", or the call of p: "transmit", "transmitted", "receive"
  buf,      \* buf[p]: the bytes of p's last call, << >> while it receives
  pending,  \* data the device still has to send after its header
  owed      \* amount the viewer has to receive after a header

aVars == << call, buf, pending, owed >>

AInit ==
  /\ call = [p \in Proc |-> "idle"]
  /\ buf  = [p \in Proc |-> << >>]
  /\ pending = << >>
  /\ owed = 0

Begin(p, how, bytes) ==
  /\ call[p] = "idle"
  /\ call' = [call EXCEPT ![p] = how]
  /\ buf'  = [buf EXCEPT ![p] = bytes]

ATransmitHeader(p) == \E data \in Payload :
  /\ p = Device => pending = << >>
  /\ p = Viewer => owed = 0 /\ data = << >>
  /\ Begin(p, "transmit", Header(Len(data)))
  /\ pending' = IF p = Device THEN data ELSE pending
  /\ UNCHANGED owed

ATransmitData ==
  /\ pending # << >>
  /\ Begin(Device, "transmit", pending)
  /\ pending' = << >>
  /\ UNCHANGED owed

AReceive(p) ==
  /\ p = Device => pending = << >>
  /\ Begin(p, "receive", << >>)
  /\ UNCHANGED << pending, owed >>

\* The meeting: the receiver returns with the transmitter's bytes.  When they
\* are a device's header, the viewer owes the reception of its data; when
\* they are that data, it owes nothing any more.
ADeliver(p) ==
  /\ call[p] = "receive"
  /\ call[Other(p)] = "transmit"
  /\ call' = [call EXCEPT ![p] = "idle", ![Other(p)] = "transmitted"]
  /\ buf'  = [buf EXCEPT ![p] = buf[Other(p)]]
  /\ owed' = IF p # Viewer THEN owed
             ELSE IF owed = 0 THEN buf[Device][1] ELSE 0
  /\ UNCHANGED pending

ATransmitReturns(p) ==
  /\ call[p] = "transmitted"
  /\ call' = [call EXCEPT ![p] = "idle"]
  /\ UNCHANGED << buf, pending, owed >>

ANext ==
  \/ ATransmitData
  \/ \E p \in Proc : \/ ATransmitHeader(p) \/ AReceive(p)
                     \/ ADeliver(p) \/ ATransmitReturns(p)

\* Two outstanding calls that match do meet, and the transmitter returns.
AFairness == \A p \in Proc : WF_aVars(ADeliver(p)) /\ WF_aVars(ATransmitReturns(p))

ASpec == AInit /\ [][ANext]_aVars /\ AFairness
=============================================================================
