------------------------------ MODULE TkChannel -----------------------------
(***************************************************************************)
(* What the data link between the tk driver and plserver promises: a       *)
(* packet that pl_PacketSend takes arrives whole, once and in its place,   *)
(* and when pl_PacketSend has returned it arrives whatever becomes of the  *)
(* program.  Module TkPackets implements it byte by byte.                  *)
(***************************************************************************)
EXTENDS Naturals, Sequences

CONSTANT Packet

VARIABLES
  sent,      \* the packets given to pl_PacketSend
  taken,     \* how many of them it has returned from
  arrived,   \* the packets that plserver has processed
  alive      \* the program is

vars == << sent, taken, arrived, alive >>

Init ==
  /\ sent = << >> /\ taken = 0 /\ arrived = << >> /\ alive = TRUE

Send ==
  /\ alive /\ taken = Len(sent)
  /\ Len(sent') = Len(sent) + 1
  /\ sent' \in Seq(Packet) /\ SubSeq(sent', 1, Len(sent)) = sent
  /\ UNCHANGED << taken, arrived, alive >>

Sent ==
  /\ alive /\ taken < Len(sent)
  /\ taken' = Len(sent)
  /\ UNCHANGED << sent, arrived, alive >>

Arrive ==
  /\ Len(arrived) < taken
  /\ arrived' = Append(arrived, sent[Len(arrived) + 1])
  /\ UNCHANGED << sent, taken, alive >>

Die ==
  /\ alive /\ alive' = FALSE
  /\ UNCHANGED << sent, taken, arrived >>

Next == Send \/ Sent \/ Arrive \/ Die

Spec == Init /\ [][Next]_vars /\ WF_vars(Arrive)
=============================================================================
