---------------------------- MODULE PbAdvProofs ----------------------------
(***************************************************************************)
(* Proofs about PbAdv for every value of its constants.                    *)
(***************************************************************************)
EXTENDS PbAdv, SequenceTheorems, FiniteSetTheorems, TLAPS

-----------------------------------------------------------------------------
(* The values the handlers assign have their types. *)

\* Every state is a State, and a PDU is the state of its sender.
LEMMA StateType ==
  /\ {IDLE, LINK_OPENING, LINK_OPENED, FAILED, LINK_CLOSING} \subseteq State
  /\ PDU \subseteq State
  /\ {INVITE, CAPABILITES, START, PUBLIC_KEY, CONFIRMATION, RANDOM, DATA, COMPLETE, FAILED}
       \subseteq PDU
BY DEF State, PDU, IDLE, LINK_OPENING, LINK_OPENED, INVITE, CAPABILITES, START, PUBLIC_KEY,
       CONFIRMATION, RANDOM, DATA, COMPLETE, FAILED, LINK_CLOSING

\* Reasons and outcomes are numbered as the code numbers them.
LEMMA ReasonType ==
  /\ {SUCCESS, TIMEOUT, FAIL, LINK_LOSS} \subseteq Reason
  /\ Reason \subseteq Ending /\ WireReasons \subseteq Ending
  /\ {OPEN_TIMEOUT, NOT_ENDED} \subseteq Ending
  /\ \A why \in Reason : WireReason(why) \in WireReasons
BY DEF Reason, WireReasons, Ending, WireReason,
       SUCCESS, TIMEOUT, FAIL, LINK_LOSS, OPEN_TIMEOUT, NOT_ENDED

\* Transaction numbers stay in a uint8_t.
LEMMA NextTnType ==
  ASSUME NEW n \in Node, NEW tn \in Byte, NEW pdu
  PROVE  NextTn(n, tn, pdu) \in Byte /\ DevNextTn(tn) \in Byte
BY DEF NextTn, ProvNextTn, DevNextTn, Byte

\* The packets the handlers build are packets.
LEMMA PacketType ==
  ASSUME NEW l \in Link
  PROVE  /\ LinkOpenPkt(l, Dev) \in Packet
         /\ LinkAckPkt(l) \in Packet
         /\ \A why \in WireReasons : LinkClosePkt(l, why) \in Packet
         /\ \A tn \in Byte : TransAckPkt(l, tn) \in Packet
         /\ \A tn \in Byte, pdu \in PDU, i \in 0 .. 2 : SegPkt(l, tn, pdu, i) \in Packet
<1>1. LinkOpenPkt(l, Dev) \in Packet
  BY DEF Packet, Uuid, LinkOpenPkt
<1>2. LinkAckPkt(l) \in Packet
  BY DEF Packet, LinkAckPkt
<1>3. \A why \in WireReasons : LinkClosePkt(l, why) \in Packet
  BY DEF Packet, LinkClosePkt
<1>4. \A tn \in Byte : TransAckPkt(l, tn) \in Packet
  BY DEF Packet, TransAckPkt
<1>5. \A tn \in Byte, pdu \in PDU, i \in 0 .. 2 : SegPkt(l, tn, pdu, i) \in Packet
  BY DEF Packet, SegPkt
<1> QED
  BY <1>1, <1>2, <1>3, <1>4, <1>5

-----------------------------------------------------------------------------
(***************************************************************************)
(* Agreement is not inductive: success is reported by a LINK_CLOSE that    *)
(* follows a COMPLETE state that follows a COMPLETE PDU on its way.  So    *)
(* none of these may exist anywhere before the device is provisioned.      *)
(***************************************************************************)

\* A packet that tells its receiver that provisioning succeeded.
Finishing(p) ==
  \/ p.kind = "seg" /\ p.pdu = COMPLETE
  \/ p.kind = "close" /\ p.reason = SUCCESS

NoneFinishing(s) == \A i \in DOMAIN s : ~Finishing(s[i])

\* An object that neither shows nor announces success.
Unfinished(d) ==
  /\ d.state # COMPLETE /\ d.rxpdu # COMPLETE /\ d.ended # SUCCESS
  /\ d.state = LINK_CLOSING => d.reason # SUCCESS
  /\ NoneFinishing(d.out)

\* The object keeps its types, and a provisioned node stays provisioned.
Kept(d, e) == e \in Device /\ (d.provisioned => e.provisioned)

\* What every handler of node n may do to its object.
Evolves(n, d, e) ==
  /\ e \in Device
  /\ d.provisioned => e.provisioned
  /\ Unfinished(d) => Unfinished(e) \/ (n = Dev /\ e.provisioned)

\* Helpers compose.
LEMMA EvolvesTransitive ==
  ASSUME NEW n, NEW d, NEW e, NEW f, Evolves(n, d, e), Evolves(n, e, f)
  PROVE  Evolves(n, d, f)
BY DEF Evolves

\* Kept is the part of Evolves that needs no hypothesis on the messages.
LEMMA EvolvesKept ==
  ASSUME NEW n, NEW d, NEW e
  PROVE  Evolves(n, d, e) => Kept(d, e)
BY DEF Evolves, Kept

\* It composes too.
LEMMA KeptTransitive ==
  ASSUME NEW d, NEW e, NEW f, Kept(d, e), Kept(e, f)
  PROVE  Kept(d, f)
BY DEF Kept

\* Doing nothing is allowed.
LEMMA EvolvesReflexive ==
  ASSUME NEW n, NEW d \in Device
  PROVE  Evolves(n, d, d)
BY DEF Evolves

\* An update that keeps the fields Unfinished looks at.
LEMMA UpdateEvolves ==
  ASSUME NEW n, NEW d \in Device, NEW e \in Device,
         e.state = d.state, e.rxpdu \in {d.rxpdu, NONE}, e.ended = d.ended,
         e.reason = d.reason, e.out = d.out, d.provisioned => e.provisioned
  PROVE  Evolves(n, d, e)
BY DEF Evolves, Unfinished, NONE, COMPLETE

\* Starting the timer.
LEMMA ArmEvolves ==
  ASSUME NEW n, NEW d \in Device, NEW t \in Timer
  PROVE  Evolves(n, d, Arm(d, t))
<1>1. Arm(d, t) \in Device
  BY DEF Arm, Device
<1> QED
  BY <1>1, UpdateEvolves DEF Arm, Device

\* Handing packets to the bearer.
LEMMA EmitEvolves ==
  ASSUME NEW n, NEW d \in Device, NEW pkts \in Seq(Packet),
         Unfinished(d) => NoneFinishing(pkts)
  PROVE  Evolves(n, d, Emit(d, pkts))
<1>1. d.out \in Seq(Packet) /\ d.out \o pkts \in Seq(Packet)
  BY DEF Device
<1>2. Emit(d, pkts) \in Device
  BY <1>1 DEF Emit, Device
<1>3. NoneFinishing(d.out) /\ NoneFinishing(pkts) => NoneFinishing(d.out \o pkts)
  BY <1>1 DEF NoneFinishing
<1>4. Unfinished(d) => Unfinished(Emit(d, pkts))
  BY <1>3 DEF Emit, Unfinished, Device
<1>5. Emit(d, pkts).provisioned = d.provisioned
  BY DEF Emit, Device
<1> QED
  BY <1>2, <1>4, <1>5 DEF Evolves

\* Resetting and deleting the object.
LEMMA ResetEvolves ==
  ASSUME NEW n, NEW d \in Device
  PROVE  /\ \A a \in Addrs : Evolves(n, d, Created(d, a))
         /\ \A why \in Ending :
              /\ Kept(d, Deleted(d, why))
              /\ (Unfinished(d) => why # SUCCESS) => Evolves(n, d, Deleted(d, why))
<1>1. ASSUME NEW a \in Addrs PROVE Zeroed(d, a) \in Device
  <2>1. /\ IDLE \in State /\ 0 \in Link /\ 0 \in Byte /\ 0 \in Nat
        /\ "delay_ack" \in Timer /\ SUCCESS \in Reason
        /\ NONE \in PDU \cup {NONE} /\ {} \in SUBSET ((0 .. 2) \X PDU)
    BY StateType, ReasonType DEF Link, Byte, Timer
  <2> QED
    BY <1>1, <2>1 DEF Zeroed, Device
<1>2. d.addr \in Addrs
  BY DEF Device
<1>3. IDLE # COMPLETE /\ NONE # COMPLETE /\ IDLE # LINK_CLOSING /\ NOT_ENDED # SUCCESS
  BY DEF IDLE, COMPLETE, NONE, LINK_CLOSING, NOT_ENDED, SUCCESS
<1>4. ASSUME NEW a \in Addrs PROVE Evolves(n, d, Created(d, a))
  <2>1. << >> \in Seq(PDU) /\ {} \in SUBSET (Byte \X PDU) /\ NOT_ENDED \in Ending
    BY ReasonType
  <2>2. Created(d, a) \in Device
    BY <1>1, <1>4, <2>1, ZenonT(30) DEF Created, Device
  <2>3. Unfinished(d) => Unfinished(Created(d, a))
    BY <1>3 DEF Unfinished, Created, Zeroed, Device
  <2>4. Created(d, a).provisioned = d.provisioned
    BY DEF Created, Zeroed, Device
  <2> QED
    BY <2>2, <2>3, <2>4 DEF Evolves
<1>5. ASSUME NEW why \in Ending
      PROVE  /\ Kept(d, Deleted(d, why))
             /\ (Unfinished(d) => why # SUCCESS) => Evolves(n, d, Deleted(d, why))
  <2>1. Zeroed(d, d.addr) \in Device
    BY <1>1, <1>2
  <2>2. Deleted(d, why) \in Device
    BY <2>1 DEF Deleted, Device
  <2>3. Unfinished(d) /\ why # SUCCESS => Unfinished(Deleted(d, why))
    BY <1>3 DEF Unfinished, Deleted, Zeroed, Device
  <2>4. Deleted(d, why).provisioned = d.provisioned
    BY DEF Deleted, Zeroed, Device
  <2> QED
    BY <2>2, <2>3, <2>4 DEF Evolves, Kept
<1> QED
  BY <1>4, <1>5

\* Scheduling a PDU; only a provisioned device schedules COMPLETE.
LEMMA SendPduEvolves ==
  ASSUME NEW n \in Node, NEW d \in Device, NEW pdu \in PDU,
         pdu = COMPLETE => n = Dev /\ d.provisioned
  PROVE  Evolves(n, d, SendPdu(n, d, pdu))
<1> DEFINE e == [d EXCEPT !.state = pdu, !.tx = NextTn(n, d.tx, pdu)]
<1>1. d.tx \in Byte
  BY DEF Device
<1>2. NextTn(n, d.tx, pdu) \in Byte
  BY <1>1, NextTnType
<1>3. e \in Device
  BY <1>2, StateType DEF Device
<1>4. pdu # LINK_CLOSING
  BY DEF PDU, INVITE, FAILED, LINK_CLOSING
<1>5. Evolves(n, d, e)
  BY <1>3, <1>4 DEF Evolves, Unfinished, Device
<1>6. Evolves(n, e, Arm(e, "delay_pdu"))
  BY <1>3, ArmEvolves DEF Timer
<1> HIDE DEF e
<1>7. Evolves(n, d, Arm(e, "delay_pdu"))
  BY <1>5, <1>6, EvolvesTransitive
<1> QED
  BY <1>7, EvolvesReflexive DEF SendPdu, e

\* Sending the segments of a PDU.
LEMMA EmitPduEvolves ==
  ASSUME NEW n, NEW d \in Device, d.state \in PDU
  PROVE  Evolves(n, d, EmitPdu(d))
<1>1. d.link \in Link /\ d.tx \in Byte
  BY DEF Device
<1>2. LastSeg(d.state) \in 0 .. 2
  BY DEF LastSeg
<1>3. \A i \in 1 .. LastSeg(d.state) + 1 : i - 1 \in 0 .. 2
  BY <1>2
<1>4. \A i \in 1 .. LastSeg(d.state) + 1 : SegPkt(d.link, d.tx, d.state, i - 1) \in Packet
  BY <1>1, <1>3, PacketType
<1>5. Segments(d) \in Seq(Packet)
  BY <1>2, <1>4 DEF Segments
<1>6. Unfinished(d) => NoneFinishing(Segments(d))
  BY DEF Unfinished, NoneFinishing, Finishing, Segments, SegPkt
<1>7. Evolves(n, d, Emit(d, Segments(d)))
  BY <1>5, <1>6, EmitEvolves
<1>8. Emit(d, Segments(d)) \in Device
  BY <1>7 DEF Evolves
<1>9. {<<d.tx, d.state>>} \in SUBSET (Byte \X PDU)
  BY <1>1
<1>10. EmitPdu(d) \in Device
  BY <1>8, <1>9 DEF EmitPdu, Device
<1>11. Evolves(n, Emit(d, Segments(d)), EmitPdu(d))
  BY <1>8, <1>10, UpdateEvolves DEF EmitPdu, Device
<1> QED
  BY <1>7, <1>11, EvolvesTransitive

\* Closing the link.
LEMMA LinkCloseEvolves ==
  ASSUME NEW n, NEW d \in Device, NEW why \in Reason, Unfinished(d) => why # SUCCESS
  PROVE  Evolves(n, d, LinkClose(d, why))
<1> DEFINE e == [d EXCEPT !.state = LINK_CLOSING, !.reason = why, !.retry = 0]
           p == LinkClosePkt(d.link, WireReason(why))
<1>1. e \in Device
  BY StateType DEF Device
<1>2. LINK_CLOSING # COMPLETE
  BY DEF LINK_CLOSING, COMPLETE
<1>3. Evolves(n, d, e)
  BY <1>1, <1>2 DEF Evolves, Unfinished, Device
<1>4. p \in Packet
  BY ReasonType, PacketType DEF Device
<1>5. Unfinished(e) => why # SUCCESS
  BY DEF Unfinished, Device
<1>6. Unfinished(e) => NoneFinishing(<<p>>)
  BY <1>5 DEF NoneFinishing, Finishing, LinkClosePkt, WireReason, SUCCESS, TIMEOUT
<1>7. <<p>> \in Seq(Packet)
  BY <1>4
<1> HIDE DEF e, p
<1>8. Evolves(n, e, Emit(e, <<p>>))
  BY <1>1, <1>6, <1>7, EmitEvolves
<1>9. Emit(e, <<p>>) \in Device
  BY <1>8 DEF Evolves
<1>10. Evolves(n, Emit(e, <<p>>), Arm(Emit(e, <<p>>), "retry"))
  BY <1>9, ArmEvolves DEF Timer
<1>11. Evolves(n, d, Arm(Emit(e, <<p>>), "retry"))
  BY <1>3, <1>8, <1>10, EvolvesTransitive
<1> QED
  BY <1>11, EvolvesReflexive DEF LinkClose, e, p

-----------------------------------------------------------------------------
(* The timeout handlers. *)

\* An accepted PDU is logged.
LEMMA AcceptType ==
  ASSUME NEW d \in Device, NEW pdu \in PDU
  PROVE  Accept(d, pdu) \in Device
<1> DEFINE h == IF pdu = FAILED THEN d.heard ELSE Append(d.heard, pdu)
           v == d.provisioned \/ pdu = DATA
<1>1. h \in Seq(PDU) /\ v \in BOOLEAN /\ pdu \in State
  BY StateType DEF Device
<1>2. Accept(d, pdu) = [d EXCEPT !.state = pdu, !.heard = h, !.provisioned = v]
  BY DEF Accept
<1> HIDE DEF h, v
<1> QED
  BY <1>1, <1>2 DEF Device

\* Processing a PDU: COMPLETE is answered only to provisioning data, and only
\* by the device, which is provisioned from then on.
LEMMA ProvPduProcessEvolves ==
  ASSUME NEW n \in Node, NEW d \in Device, NEW pdu \in PDU \cup {NONE}, NEW valid \in BOOLEAN
  PROVE  /\ ProvPduProcess(n, d, pdu, valid) \in Device
         /\ d.provisioned => ProvPduProcess(n, d, pdu, valid).provisioned
         /\ pdu # COMPLETE => Evolves(n, d, ProvPduProcess(n, d, pdu, valid))
<1> DEFINE g == ProvPduProcess(n, d, pdu, valid)
<1>1. CASE pdu = NONE \/ ~MayAccept(d.state, pdu) \/ ~valid
  <2>1. Evolves(n, d, SendPdu(n, d, FAILED))
    BY SendPduEvolves, StateType DEF FAILED, COMPLETE
  <2>2. g = SendPdu(n, d, FAILED)
    BY <1>1 DEF ProvPduProcess
  <2> QED
    BY <2>1, <2>2 DEF Evolves
<1>2. CASE ~(pdu = NONE \/ ~MayAccept(d.state, pdu) \/ ~valid)
  <2> DEFINE e == Accept(d, pdu)
             f == SendPdu(n, e, Answer(n, pdu))
  <2>1. pdu \in PDU /\ pdu # LINK_CLOSING
    BY <1>2 DEF PDU, INVITE, FAILED, LINK_CLOSING
  <2>2. e \in Device
    BY <2>1, AcceptType
  <2>3. pdu # COMPLETE => Evolves(n, d, e)
    BY <2>1, <2>2 DEF Accept, Evolves, Unfinished, Device
  <2>4. d.provisioned => e.provisioned
    BY DEF Accept, Device
  <2>5. Answer(n, pdu) # NONE => Answer(n, pdu) \in PDU
    BY StateType DEF Answer
  <2>6. Answer(n, pdu) = COMPLETE => n = Dev /\ pdu = DATA
    BY DEF Answer, Node, Prov, Dev, INVITE, CAPABILITES, START, PUBLIC_KEY, CONFIRMATION,
           RANDOM, DATA, COMPLETE, NONE
  <2>7. pdu = DATA => e.provisioned
    BY DEF Accept, Device
  <2> HIDE DEF e
  <2>8. Answer(n, pdu) # NONE => Evolves(n, e, f)
    BY <2>2, <2>5, <2>6, <2>7, SendPduEvolves
  <2>9. Evolves(n, e, g)
    <3>1. g = IF Answer(n, pdu) = NONE THEN e ELSE f
      BY <1>2 DEF ProvPduProcess, e
    <3> HIDE DEF f, g
    <3> QED
      BY <2>2, <2>8, <3>1, EvolvesReflexive
  <2> HIDE DEF g
  <2>10. pdu # COMPLETE => Evolves(n, d, g)
    BY <2>3, <2>9, EvolvesTransitive
  <2> QED
    BY <2>4, <2>9, <2>10 DEF Evolves, g
<1> QED
  BY <1>1, <1>2

\* meshx_pb_adv_handle_delay, acknowledgement due.
LEMMA AckAndProcessEvolves ==
  ASSUME NEW n \in Node, NEW d \in Device, NEW acked \in BOOLEAN, NEW valid \in BOOLEAN
  PROVE  Evolves(n, d, AckAndProcess(n, d, acked, valid))
<1> DEFINE p == TransAckPkt(d.link, d.rx)
           s == [Emit(d, <<p>>) EXCEPT !.acked = d.rx]
           a == IF acked THEN s ELSE d
           c == [a EXCEPT !.rxpdu = NONE]
           b == Arm(c, "monitor")
           f == [b EXCEPT !.tx = DevNextTn(@)]
<1>1. d.link \in Link /\ d.rx \in Byte /\ d.rxpdu \in PDU \cup {NONE}
  BY DEF Device
<1>2. p \in Packet
  BY <1>1, PacketType
<1>3. ~Finishing(p)
  BY DEF Finishing, TransAckPkt
<1>4. Evolves(n, d, Emit(d, <<p>>))
  <2> HIDE DEF p
  <2>1. <<p>> \in Seq(Packet)
    BY <1>2
  <2>2. NoneFinishing(<<p>>)
    BY <1>3 DEF NoneFinishing
  <2> QED
    BY <2>1, <2>2, EmitEvolves
<1>5. Emit(d, <<p>>) \in Device
  BY <1>4 DEF Evolves
<1>6. s \in Device
  <2> HIDE DEF p
  <2> QED
    BY <1>1, <1>5 DEF Device
<1>7. Evolves(n, Emit(d, <<p>>), s)
  <2> HIDE DEF p
  <2> QED
    BY <1>5, <1>6, UpdateEvolves DEF Device
<1>8. Evolves(n, d, a)
  BY <1>4, <1>7, EvolvesTransitive, EvolvesReflexive
<1>9. a \in Device
  BY <1>8 DEF Evolves
<1> HIDE DEF a
<1>10. c \in Device
  BY <1>9 DEF Device
<1>11. Evolves(n, a, c)
  BY <1>9, <1>10, UpdateEvolves DEF Device
<1>12. Evolves(n, c, b)
  BY <1>10, ArmEvolves DEF Timer
<1>13. Evolves(n, d, b) /\ b \in Device
  BY <1>8, <1>11, <1>12, EvolvesTransitive DEF Evolves
<1>14. CASE ValidPeerTn(n, d.rx)
  <2> DEFINE g == ProvPduProcess(n, b, d.rxpdu, valid)
  <2>1. AckAndProcess(n, d, acked, valid) = g
    BY <1>14 DEF AckAndProcess, a
  <2> HIDE DEF b
  <2>2. g \in Device /\ (b.provisioned => g.provisioned)
    BY <1>1, <1>13, ProvPduProcessEvolves
  <2>3. Unfinished(d) => Evolves(n, b, g)
    BY <1>1, <1>13, ProvPduProcessEvolves DEF Unfinished
  <2> HIDE DEF g
  <2>4. Unfinished(d) => Evolves(n, d, g)
    BY <1>13, <2>3, EvolvesTransitive
  <2> QED
    BY <1>13, <2>1, <2>2, <2>4 DEF Evolves
<1>15. CASE ~ValidPeerTn(n, d.rx)
  <2>1. AckAndProcess(n, d, acked, valid) = Arm(f, "delay_pdu")
    BY <1>15 DEF AckAndProcess, a
  <2> HIDE DEF b
  <2>2. DevNextTn(b.tx) \in Byte
    BY <1>13, NextTnType DEF Device
  <2>3. f \in Device
    BY <1>13, <2>2 DEF Device
  <2>4. Evolves(n, b, f)
    BY <1>13, <2>3, UpdateEvolves DEF Device
  <2>5. Evolves(n, f, Arm(f, "delay_pdu"))
    BY <2>3, ArmEvolves DEF Timer
  <2> HIDE DEF f
  <2> QED
    BY <1>13, <2>1, <2>4, <2>5, EvolvesTransitive
<1> QED
  BY <1>14, <1>15

\* meshx_pb_adv_handle_delay, PDU due.
LEMMA FirstSendEvolves ==
  ASSUME NEW n, NEW d \in Device, d.state \in PDU
  PROVE  Evolves(n, d, FirstSend(d))
<1> DEFINE s == EmitPdu(d)
           f == [s EXCEPT !.retry = 0]
<1>1. Evolves(n, d, s) /\ s \in Device
  BY EmitPduEvolves DEF Evolves
<1> HIDE DEF s
<1>2. f \in Device
  BY <1>1 DEF Device
<1>3. Evolves(n, s, f)
  BY <1>1, <1>2, UpdateEvolves DEF Device
<1>4. Evolves(n, f, Arm(f, "retry"))
  BY <1>2, ArmEvolves DEF Timer
<1> HIDE DEF f
<1>5. Evolves(n, d, Arm(f, "retry"))
  BY <1>1, <1>3, <1>4, EvolvesTransitive
<1> QED
  BY <1>5 DEF FirstSend, f, s

\* meshx_pb_adv_handle_link_loss
LEMMA LinkLossEvolves ==
  ASSUME NEW n, NEW d \in Device
  PROVE  Evolves(n, d, LinkLoss(d))
<1> DEFINE s == [d EXCEPT !.armed = FALSE]
<1>1. s \in Device
  BY DEF Device
<1>2. Evolves(n, d, s)
  BY <1>1, UpdateEvolves DEF Device
<1> HIDE DEF s
<1>3. Evolves(n, s, LinkClose(s, LINK_LOSS))
  BY <1>1, ReasonType, LinkCloseEvolves DEF LINK_LOSS, SUCCESS
<1>4. Evolves(n, d, LinkClose(s, LINK_LOSS))
  BY <1>2, <1>3, EvolvesTransitive
<1> QED
  BY <1>4 DEF LinkLoss, s

\* Counting a retransmission.
LEMMA CountEvolves ==
  ASSUME NEW n, NEW d \in Device
  PROVE  Evolves(n, d, [d EXCEPT !.retry = @ + 1])
<1> DEFINE e == [d EXCEPT !.retry = @ + 1]
<1>1. d.retry + 1 \in Nat
  BY DEF Device
<1>2. e \in Device
  BY <1>1 DEF Device
<1> QED
  BY <1>2, UpdateEvolves DEF Device

\* meshx_pb_adv_handle_retry, the link is being opened.
LEMMA RetryOpenEvolves ==
  ASSUME NEW n, NEW d \in Device
  PROVE  Evolves(n, d, RetryOpen(d))
<1> DEFINE p == LinkOpenPkt(d.link, Dev)
           e == Emit(d, <<p>>)
<1>1. p \in Packet
  BY PacketType DEF Device
<1>2. ~Finishing(p)
  BY DEF Finishing, LinkOpenPkt
<1> HIDE DEF p
<1>3. <<p>> \in Seq(Packet) /\ NoneFinishing(<<p>>)
  BY <1>1, <1>2 DEF NoneFinishing
<1>4. Evolves(n, d, e) /\ e \in Device
  BY <1>3, EmitEvolves DEF Evolves
<1> HIDE DEF e
<1>5. Evolves(n, e, Deleted(e, OPEN_TIMEOUT))
  BY <1>4, ReasonType, ResetEvolves DEF OPEN_TIMEOUT, SUCCESS
<1>6. Evolves(n, e, [e EXCEPT !.retry = @ + 1])
  BY <1>4, CountEvolves
<1>7. RetryOpen(d) \in {Deleted(e, OPEN_TIMEOUT), [e EXCEPT !.retry = @ + 1]}
  BY DEF RetryOpen, e, p
<1> QED
  BY <1>4, <1>5, <1>6, <1>7, EvolvesTransitive

\* meshx_pb_adv_handle_retry, the link is being closed: what is repeated, and
\* reported in the end, is the reason the close began with.
LEMMA RetryCloseEvolves ==
  ASSUME NEW n, NEW d \in Device, d.state = LINK_CLOSING
  PROVE  Evolves(n, d, RetryClose(d))
<1> DEFINE p == LinkClosePkt(d.link, WireReason(d.reason))
           e == Emit(d, <<p>>)
<1>1. p \in Packet
  BY ReasonType, PacketType DEF Device
<1>2. Unfinished(d) => ~Finishing(p)
  BY DEF Unfinished, Finishing, LinkClosePkt, WireReason, SUCCESS, TIMEOUT
<1> HIDE DEF p
<1>3. <<p>> \in Seq(Packet) /\ (Unfinished(d) => NoneFinishing(<<p>>))
  BY <1>1, <1>2 DEF NoneFinishing
<1>4. Evolves(n, d, e) /\ e \in Device
  BY <1>3, EmitEvolves DEF Evolves
<1>5. e.state = LINK_CLOSING /\ e.reason = d.reason
  BY DEF Emit, Device
<1>6. d.reason \in Ending
  BY ReasonType DEF Device
<1> HIDE DEF e
<1>7. Unfinished(e) => d.reason # SUCCESS
  BY <1>5 DEF Unfinished
<1>8. Evolves(n, e, Deleted(e, d.reason))
  BY <1>4, <1>6, <1>7, ResetEvolves
<1>9. Evolves(n, e, [e EXCEPT !.retry = @ + 1])
  BY <1>4, CountEvolves
<1>10. RetryClose(d) \in {Deleted(e, d.reason), [e EXCEPT !.retry = @ + 1]}
  BY DEF RetryClose, e, p
<1> QED
  BY <1>4, <1>8, <1>9, <1>10, EvolvesTransitive

\* meshx_pb_adv_handle_retry, a PDU is not acknowledged.
LEMMA RetryPduEvolves ==
  ASSUME NEW n, NEW d \in Device, d.state \in PDU
  PROVE  Evolves(n, d, RetryPdu(d))
<1> DEFINE s == EmitPdu(d)
           e == [s EXCEPT !.retry = @ + 1]
<1>1. Evolves(n, d, s) /\ s \in Device
  BY EmitPduEvolves DEF Evolves
<1> HIDE DEF s
<1>2. Evolves(n, s, e) /\ e \in Device
  BY <1>1, CountEvolves DEF Evolves
<1> HIDE DEF e
<1>3. Evolves(n, e, LinkClose(e, TIMEOUT))
  BY <1>2, ReasonType, LinkCloseEvolves DEF TIMEOUT, SUCCESS
<1>4. RetryPdu(d) \in {LinkClose(e, TIMEOUT), e}
  BY DEF RetryPdu, e, s
<1> QED
  BY <1>1, <1>2, <1>3, <1>4, EvolvesTransitive

\* meshx_pb_adv_handle_retry
LEMMA RetryEvolves ==
  ASSUME NEW n, NEW d \in Device
  PROVE  Evolves(n, d, Retry(d))
<1>1. d.state \in INVITE .. COMPLETE => d.state \in PDU
  BY DEF PDU, INVITE, COMPLETE, FAILED
<1> QED
  BY <1>1, RetryOpenEvolves, RetryCloseEvolves, RetryPduEvolves, EvolvesReflexive DEF Retry


-----------------------------------------------------------------------------
(* The receive handlers. *)

\* Sending one packet that announces nothing.
LEMMA EmitOneEvolves ==
  ASSUME NEW n, NEW d \in Device, NEW p \in Packet, ~Finishing(p)
  PROVE  Evolves(n, d, Emit(d, <<p>>))
<1>1. <<p>> \in Seq(Packet) /\ NoneFinishing(<<p>>)
  BY DEF NoneFinishing
<1> QED
  BY <1>1, EmitEvolves

\* The two acknowledgements announce nothing.
LEMMA AcksAnnounceNothing ==
  ASSUME NEW l, NEW tn
  PROVE  ~Finishing(LinkAckPkt(l)) /\ ~Finishing(TransAckPkt(l, tn))
BY DEF Finishing, LinkAckPkt, TransAckPkt

\* meshx_pb_adv_link_ack
LEMMA LinkAckEvolves ==
  ASSUME NEW n, NEW d \in Device, NEW sent \in BOOLEAN
  PROVE  Evolves(n, d, LinkAck(d, sent))
<1> DEFINE e == [d EXCEPT !.state = LINK_OPENED, !.udb = FALSE]
           p == LinkAckPkt(d.link)
           g == Arm(Emit(e, <<p>>), "monitor")
<1>1. e \in Device
  BY StateType DEF Device
<1>2. LINK_OPENED # COMPLETE /\ LINK_OPENED # LINK_CLOSING
  BY DEF LINK_OPENED, COMPLETE, LINK_CLOSING
<1>3. Evolves(n, d, e)
  BY <1>1, <1>2 DEF Evolves, Unfinished, Device
<1>4. p \in Packet /\ ~Finishing(p)
  BY PacketType, AcksAnnounceNothing DEF Device
<1> HIDE DEF e, p
<1>5. Evolves(n, e, Emit(e, <<p>>)) /\ Emit(e, <<p>>) \in Device
  BY <1>1, <1>4, EmitOneEvolves DEF Evolves
<1>6. Evolves(n, Emit(e, <<p>>), g)
  BY <1>5, ArmEvolves DEF Timer
<1> HIDE DEF g
<1>7. Evolves(n, d, g)
  BY <1>3, <1>5, <1>6, EvolvesTransitive
<1>8. LinkAck(d, sent) \in {g, d}
  BY DEF LinkAck, e, p, g
<1> QED
  BY <1>7, <1>8, EvolvesReflexive

\* meshx_pb_adv_recv_link_open
LEMMA LinkOpenedEvolves ==
  ASSUME NEW n, NEW d \in Device, NEW l \in Link, NEW a \in Addrs, NEW sent \in BOOLEAN
  PROVE  Evolves(n, d, LinkOpened(d, l, a, sent))
<1> DEFINE c == IF d.state = IDLE THEN Created(d, a) ELSE d
           g == Emit(c, <<LinkAckPkt(l)>>)
           s == [c EXCEPT !.link = l, !.state = LINK_OPENING, !.tx = 127,
                          !.acked = 255, !.rxpdu = NONE]
<1>1. Evolves(n, d, c) /\ c \in Device
  BY ResetEvolves, EvolvesReflexive DEF Evolves
<1>2. LinkOpened(d, l, a, sent) \in {c, g, LinkAck(s, sent)}
  <2>1. LinkOpened(d, l, a, sent) =
          CASE c.state > LINK_OPENED -> c
            [] c.state = LINK_OPENED -> IF c.link = l THEN g ELSE c
            [] OTHER -> LinkAck(s, sent)
    BY DEF LinkOpened
  <2>2. c.state > LINK_OPENED => c.state # LINK_OPENED
    BY DEF LINK_OPENED
  <2> HIDE DEF c, g, s
  <2>3. CASE c.state > LINK_OPENED
    BY <2>1, <2>2, <2>3
  <2>4. CASE c.state = LINK_OPENED
    BY <2>1, <2>2, <2>4
  <2>5. CASE ~(c.state > LINK_OPENED) /\ c.state # LINK_OPENED
    BY <2>1, <2>5
  <2> QED
    BY <2>3, <2>4, <2>5
<1> HIDE DEF c
<1>3. Evolves(n, c, g)
  <2>1. LinkAckPkt(l) \in Packet /\ ~Finishing(LinkAckPkt(l))
    BY PacketType, AcksAnnounceNothing
  <2> QED
    BY <1>1, <2>1, EmitOneEvolves
<1>4. s \in Device
  <2>1. ASSUME NEW x \in State, NEW t \in Byte, NEW u \in Byte
        PROVE  [c EXCEPT !.link = l, !.state = x, !.tx = t, !.acked = u, !.rxpdu = NONE] \in Device
    BY <1>1 DEF Device
  <2>2. 127 \in Byte /\ 255 \in Byte
    BY DEF Byte
  <2> QED
    BY <2>1, <2>2, StateType
<1>5. LINK_OPENING # COMPLETE /\ LINK_OPENING # LINK_CLOSING /\ NONE # COMPLETE
  BY DEF LINK_OPENING, COMPLETE, LINK_CLOSING, NONE
<1>6. Evolves(n, c, s)
  BY <1>1, <1>4, <1>5 DEF Evolves, Unfinished, Device
<1> HIDE DEF s
<1>7. Evolves(n, s, LinkAck(s, sent))
  BY <1>4, LinkAckEvolves
<1> HIDE DEF g
<1> QED
  BY <1>1, <1>2, <1>3, <1>6, <1>7, EvolvesTransitive

\* meshx_pb_adv_recv_link_ack
LEMMA LinkAckedEvolves ==
  ASSUME NEW n \in Node, NEW d \in Device
  PROVE  Evolves(n, d, LinkAcked(n, d))
<1> DEFINE s == [d EXCEPT !.retry = 0, !.state = LINK_OPENED, !.udb = FALSE]
           e == Arm(s, "monitor")
           g == SendPdu(n, e, INVITE)
<1>1. s \in Device
  BY StateType DEF Device
<1>2. LINK_OPENED # COMPLETE /\ LINK_OPENED # LINK_CLOSING
  BY DEF LINK_OPENED, COMPLETE, LINK_CLOSING
<1>3. Evolves(n, d, s)
  BY <1>1, <1>2 DEF Evolves, Unfinished, Device
<1> HIDE DEF s
<1>4. Evolves(n, s, e) /\ e \in Device
  BY <1>1, ArmEvolves DEF Timer, Evolves
<1> HIDE DEF e
<1>5. Evolves(n, e, g)
  BY <1>4, SendPduEvolves, StateType DEF INVITE, COMPLETE
<1> HIDE DEF g
<1>6. Evolves(n, d, e) /\ Evolves(n, d, g)
  BY <1>3, <1>4, <1>5, EvolvesTransitive
<1>7. LinkAcked(n, d) \in {d, e, g}
  BY DEF LinkAcked, s, e, g
<1> QED
  BY <1>6, <1>7, EvolvesReflexive

\* meshx_pb_adv_recv_link_close
LEMMA LinkClosedEvolves ==
  ASSUME NEW n, NEW d \in Device, NEW why \in WireReasons
  PROVE  /\ Kept(d, LinkClosed(d, why))
         /\ why # SUCCESS => Evolves(n, d, LinkClosed(d, why))
<1>1. why \in Ending
  BY ReasonType
<1>2. Kept(d, d) /\ Kept(d, Deleted(d, why))
  BY <1>1, ResetEvolves DEF Kept
<1>3. Evolves(n, d, d) /\ (why # SUCCESS => Evolves(n, d, Deleted(d, why)))
  BY <1>1, ResetEvolves, EvolvesReflexive
<1> QED
  BY <1>2, <1>3 DEF LinkClosed

\* The end of reassembly.
LEMMA IfCompleteEvolves ==
  ASSUME NEW n, NEW d \in Device
  PROVE  Evolves(n, d, IfComplete(d))
<1> DEFINE e == [d EXCEPT !.rxpdu = NONE]
<1>1. e \in Device
  BY DEF Device
<1>2. Evolves(n, d, e)
  BY <1>1, UpdateEvolves DEF Device
<1>3. Evolves(n, d, Arm(d, "delay_ack"))
  BY ArmEvolves DEF Timer
<1> HIDE DEF e
<1>4. Evolves(n, d, Reassembled(d))
  <2>1. Reassembled(d) \in {d, e, Arm(d, "delay_ack")}
    BY DEF Reassembled, e
  <2> QED
    BY <1>2, <1>3, <2>1, EvolvesReflexive
<1> QED
  BY <1>4, EvolvesReflexive DEF IfComplete

\* meshx_pb_adv_recv_trans_start
LEMMA TransStartEvolves ==
  ASSUME NEW n, NEW d \in Device, NEW p, p.tn \in Byte, p.pdu \in PDU
  PROVE  /\ Kept(d, TransStart(d, p))
         /\ p.pdu # COMPLETE => Evolves(n, d, TransStart(d, p))
<1> DEFINE k == TransAckPkt(d.link, d.acked)
           s == [d EXCEPT !.rxpdu = p.pdu, !.rx = p.tn, !.got = {<<0, p.pdu>>}]
<1>1. k \in Packet /\ ~Finishing(k)
  BY PacketType, AcksAnnounceNothing DEF Device
<1>2. Evolves(n, d, Emit(d, <<k>>))
  <2> HIDE DEF k
  <2> QED
    BY <1>1, EmitOneEvolves
<1>3. {<<0, p.pdu>>} \in SUBSET ((0 .. 2) \X PDU)
  OBVIOUS
<1>4. s \in Device
  BY <1>3 DEF Device
<1>5. Kept(d, s) /\ (p.pdu # COMPLETE => Evolves(n, d, s))
  BY <1>4 DEF Kept, Evolves, Unfinished, Device
<1>6. TransStart(d, p) \in {d, Emit(d, <<k>>), IfComplete(s)}
  BY DEF TransStart
<1> HIDE DEF s, k
<1>7. Evolves(n, s, IfComplete(s))
  BY <1>4, IfCompleteEvolves
<1>8. Kept(d, d) /\ Kept(d, Emit(d, <<k>>)) /\ Kept(d, IfComplete(s))
  BY <1>2, <1>5, <1>7, EvolvesReflexive, EvolvesKept, KeptTransitive
<1>9. p.pdu # COMPLETE => Evolves(n, d, IfComplete(s))
  BY <1>5, <1>7, EvolvesTransitive
<1> QED
  BY <1>2, <1>6, <1>8, <1>9, EvolvesReflexive

\* meshx_pb_adv_recv_trans_continue
LEMMA TransContinueEvolves ==
  ASSUME NEW n, NEW d \in Device, NEW p, p.seg \in 0 .. 2, p.pdu \in PDU
  PROVE  Evolves(n, d, TransContinue(d, p))
<1> DEFINE k == TransAckPkt(d.link, d.acked)
           s == [d EXCEPT !.got = @ \cup {<<p.seg, p.pdu>>}]
<1>1. k \in Packet /\ ~Finishing(k)
  BY PacketType, AcksAnnounceNothing DEF Device
<1>2. Evolves(n, d, Emit(d, <<k>>))
  <2> HIDE DEF k
  <2> QED
    BY <1>1, EmitOneEvolves
<1>3. d.got \cup {<<p.seg, p.pdu>>} \in SUBSET ((0 .. 2) \X PDU)
  BY DEF Device
<1>4. s \in Device
  BY <1>3 DEF Device
<1>5. Evolves(n, d, s)
  BY <1>4, UpdateEvolves DEF Device
<1>6. TransContinue(d, p) \in {d, Emit(d, <<k>>), IfComplete(s)}
  BY DEF TransContinue
<1> HIDE DEF s, k
<1>7. Evolves(n, d, IfComplete(s))
  BY <1>4, <1>5, IfCompleteEvolves, EvolvesTransitive
<1> QED
  BY <1>2, <1>6, <1>7, EvolvesReflexive

\* meshx_pb_adv_recv_trans_ack: success is reported from COMPLETE only.
LEMMA TransAckedEvolves ==
  ASSUME NEW n \in Node, NEW d \in Device, NEW tn
  PROVE  Evolves(n, d, TransAcked(n, d, tn))
<1> DEFINE s == [d EXCEPT !.retry = 0]
           e == Arm(s, "monitor")
<1>1. s \in Device
  BY DEF Device
<1>2. Evolves(n, d, s)
  BY <1>1, UpdateEvolves DEF Device
<1> HIDE DEF s
<1>3. Evolves(n, s, e) /\ e \in Device
  BY <1>1, ArmEvolves DEF Timer, Evolves
<1>4. Evolves(n, d, e)
  BY <1>2, <1>3, EvolvesTransitive
<1>5. \/ TransAcked(n, d, tn) \in {d, e, LinkClose(e, FAIL), SendPdu(n, e, PUBLIC_KEY)}
      \/ e.state = COMPLETE /\ TransAcked(n, d, tn) = LinkClose(e, SUCCESS)
  <2>1. CASE d.state = IDLE \/ d.tx # tn
    BY <2>1 DEF TransAcked
  <2>2. CASE ~(d.state = IDLE \/ d.tx # tn)
    <3>1. TransAcked(n, d, tn) =
            CASE e.state = FAILED -> LinkClose(e, FAIL)
              [] e.state = COMPLETE -> LinkClose(e, SUCCESS)
              [] e.state = START /\ n = Prov -> SendPdu(n, e, PUBLIC_KEY)
              [] OTHER -> e
      BY <2>2 DEF TransAcked, s
    <3>2. FAILED # COMPLETE /\ FAILED # START /\ COMPLETE # START
      BY DEF FAILED, COMPLETE, START
    <3> HIDE DEF e
    <3>3. CASE e.state = FAILED
      BY <3>1, <3>2, <3>3
    <3>4. CASE e.state = COMPLETE
      BY <3>1, <3>2, <3>4
    <3>5. CASE e.state = START /\ n = Prov
      BY <3>1, <3>2, <3>5
    <3>6. CASE e.state # FAILED /\ e.state # COMPLETE /\ ~(e.state = START /\ n = Prov)
      BY <3>1, <3>6
    <3> QED
      BY <3>3, <3>4, <3>5, <3>6
  <2> QED
    BY <2>1, <2>2
<1> HIDE DEF e
<1>6. Evolves(n, e, LinkClose(e, FAIL))
  BY <1>3, ReasonType, LinkCloseEvolves DEF FAIL, SUCCESS
<1>7. e.state = COMPLETE => Evolves(n, e, LinkClose(e, SUCCESS))
  BY <1>3, ReasonType, LinkCloseEvolves DEF Unfinished
<1>8. Evolves(n, e, SendPdu(n, e, PUBLIC_KEY))
  BY <1>3, SendPduEvolves, StateType DEF PUBLIC_KEY, COMPLETE
<1> QED
  BY <1>4, <1>5, <1>6, <1>7, <1>8, EvolvesTransitive, EvolvesReflexive


-----------------------------------------------------------------------------
(* Queues. *)

\* The fields of a message have their types.
LEMMA MessageFields ==
  ASSUME NEW p \in Message
  PROVE  /\ p.kind = "open" => p.link \in Link
         /\ p.kind = "close" => p.reason \in WireReasons
         /\ p.kind = "seg" => p.tn \in Byte /\ p.pdu \in PDU /\ p.seg \in 0 .. 2
BY DEF Message, Packet

\* What a handler appends to its peer's queue.
LEMMA EnqueueType ==
  ASSUME NEW s \in Seq(Message), NEW pkts \in Seq(Packet)
  PROVE  /\ Enqueue(s, pkts) \in Seq(Message)
         /\ NoneFinishing(s) /\ NoneFinishing(pkts) => NoneFinishing(Enqueue(s, pkts))
<1>1. Packet \subseteq Message
  BY DEF Message
<1>2. pkts \in Seq(Message)
  BY <1>1
<1>3. s \o pkts \in Seq(Message)
  BY <1>2
<1>4. NoneFinishing(s) /\ NoneFinishing(pkts) => NoneFinishing(s \o pkts)
  BY <1>2 DEF NoneFinishing
<1> QED
  BY <1>3, <1>4 DEF Enqueue

\* What is left when the head has been handled.
LEMMA TailType ==
  ASSUME NEW s \in Seq(Message), s # << >>
  PROVE  /\ Head(s) \in Message /\ Tail(s) \in Seq(Message)
         /\ NoneFinishing(s) => ~Finishing(Head(s)) /\ NoneFinishing(Tail(s))
BY DEF NoneFinishing

\* A timeout announces nothing.
LEMMA TimeoutType ==
  ASSUME NEW s \in Seq(Message), NEW a \in Addrs
  PROVE  /\ Append(s, TimeoutMsg(a)) \in Seq(Message)
         /\ NoneFinishing(s) => NoneFinishing(Append(s, TimeoutMsg(a)))
<1> DEFINE p == TimeoutMsg(a)
<1>1. p \in Message /\ ~Finishing(p)
  BY DEF TimeoutMsg, Message, Finishing
<1> HIDE DEF p
<1>2. Append(s, p) \in Seq(Message)
  BY <1>1
<1>3. NoneFinishing(s) => NoneFinishing(Append(s, p))
  BY <1>1 DEF NoneFinishing
<1> QED
  BY <1>2, <1>3 DEF p

\* The two nodes.
LEMMA NodeType ==
  ASSUME NEW n \in Node
  PROVE  /\ Prov \in Node /\ Dev \in Node /\ Prov # Dev
         /\ Peer(n) \in Node /\ Peer(n) # n
         /\ \A m \in Node : m = n \/ m = Peer(n)
BY DEF Node, Peer, Prov, Dev

-----------------------------------------------------------------------------
(***************************************************************************)
(* The invariant: until the device accepts the provisioning data, nothing  *)
(* in either object or either queue shows or announces success.            *)
(***************************************************************************)
Quiet == \A n \in Node : Unfinished(dev[n]) /\ NoneFinishing(q[n])
AInv == dev[Dev].provisioned \/ Quiet

\* The packets of a step have left the object at its end.
LEMMA SentOff ==
  ASSUME NEW d \in Device
  PROVE  /\ [d EXCEPT !.out = << >>] \in Device
         /\ [d EXCEPT !.out = << >>].provisioned = d.provisioned
         /\ Unfinished(d) => Unfinished([d EXCEPT !.out = << >>])
<1> DEFINE e == [d EXCEPT !.out = << >>]
<1>1. << >> \in Seq(Packet) /\ NoneFinishing(<< >>)
  BY DEF NoneFinishing
<1>2. e \in Device
  BY <1>1 DEF Device
<1>3. Unfinished(d) => Unfinished(e)
  BY <1>1 DEF Unfinished, Device
<1>4. e.provisioned = d.provisioned
  BY DEF Device
<1> QED
  BY <1>2, <1>3, <1>4

\* A handler that lets the object evolve keeps the types and the invariant.
LEMMA StepPreserves ==
  ASSUME TypeOK, NEW n \in Node, NEW d, q[n] # << >>, Step(n, d),
         Kept(dev[n], d), Quiet => Evolves(n, dev[n], d)
  PROVE  TypeOK' /\ (AInv => AInv')
<1> DEFINE e == [d EXCEPT !.out = << >>]
<1>1. /\ dev \in [Node -> Device] /\ q \in [Node -> Seq(Message)]
      /\ session \in Nat /\ noise \in Nat
  BY DEF TypeOK
<1>2. /\ dev' = [dev EXCEPT ![n] = e]
      /\ q' = [q EXCEPT ![n] = Tail(@), ![Peer(n)] = Enqueue(@, d.out)]
      /\ session' = session /\ noise' = noise
  BY DEF Step
<1>3. d \in Device /\ d.out \in Seq(Packet)
  <2>1. d \in Device
    BY DEF Kept
  <2> QED
    BY <2>1 DEF Device
<1>4. e \in Device
  BY <1>3, SentOff
<1>5. e.provisioned = d.provisioned /\ (Unfinished(d) => Unfinished(e))
  BY <1>3, SentOff
<1> HIDE DEF e
<1>6. dev' \in [Node -> Device]
  BY <1>1, <1>2, <1>4
<1>7. q'[n] = Tail(q[n]) /\ q'[Peer(n)] = Enqueue(q[Peer(n)], d.out)
  BY <1>1, <1>2, NodeType
<1>8. Tail(q[n]) \in Seq(Message) /\ Enqueue(q[Peer(n)], d.out) \in Seq(Message)
  BY <1>1, <1>3, NodeType, TailType, EnqueueType
<1>9. q' \in [Node -> Seq(Message)]
  BY <1>1, <1>2, <1>8, NodeType
<1>10. TypeOK'
  BY <1>1, <1>2, <1>6, <1>9 DEF TypeOK
<1>11. ASSUME AInv PROVE AInv'
  <2>1. CASE dev[Dev].provisioned
    <3>1. dev'[Dev].provisioned
      BY <1>1, <1>2, <1>5, <2>1, NodeType DEF Kept
    <3> QED
      BY <3>1 DEF AInv
  <2>2. CASE n = Dev /\ d.provisioned
    <3>1. dev'[Dev].provisioned
      BY <1>1, <1>2, <1>5, <2>2
    <3> QED
      BY <3>1 DEF AInv
  <2>3. CASE ~dev[Dev].provisioned /\ ~(n = Dev /\ d.provisioned)
    <3>1. Quiet
      BY <1>11, <2>3 DEF AInv
    <3>2. Unfinished(e) /\ NoneFinishing(d.out)
      BY <1>5, <2>3, <3>1 DEF Evolves, Quiet, Unfinished
    <3>3. NoneFinishing(q'[n]) /\ NoneFinishing(q'[Peer(n)])
      BY <1>1, <1>3, <1>7, <3>1, <3>2, NodeType, TailType, EnqueueType DEF Quiet
    <3>4. \A m \in Node : Unfinished(dev'[m])
      BY <1>1, <1>2, <3>1, <3>2 DEF Quiet
    <3>5. Quiet'
      BY <3>3, <3>4, NodeType DEF Quiet
    <3> QED
      BY <3>5 DEF AInv
  <2> QED
    BY <2>1, <2>2, <2>3
<1> QED
  BY <1>10, <1>11


-----------------------------------------------------------------------------
(* Every step of the system. *)

\* The head of a queue that a handler takes has its type, and while all is
\* quiet it reports no success.
LEMMA HeadType ==
  ASSUME TypeOK, NEW n \in Node, q[n] # << >>
  PROVE  /\ dev[n] \in Device
         /\ Head(q[n]) \in Message
         /\ Quiet => ~Finishing(Head(q[n]))
<1>1. dev[n] \in Device /\ q[n] \in Seq(Message)
  BY DEF TypeOK
<1> QED
  BY <1>1, TailType DEF Quiet

\* A handler that evolves the object whatever the message says.
LEMMA EvolvingStep ==
  ASSUME TypeOK, NEW n \in Node, NEW d, q[n] # << >>, Step(n, d), Evolves(n, dev[n], d)
  PROVE  TypeOK' /\ (AInv => AInv')
BY StepPreserves, EvolvesKept

\* Handling one message keeps the types and the invariant.
LEMMA HandlePreserves ==
  ASSUME TypeOK, NEW n \in Node, Handle(n)
  PROVE  TypeOK' /\ (AInv => AInv')
<1> DEFINE d == dev[n]
           p == Head(q[n])
<1>1. q[n] # << >>
  BY DEF Handle, RecvLinkOpen, RecvLinkAck, RecvLinkClose, RecvTransStart, RecvTransContinue,
         RecvTransAck, HandleDelayAck, HandleDelayPdu, HandleRetry, HandleLinkLoss,
         HandleStaleObject, TimeoutOf, Is
<1>2. d \in Device /\ p \in Message /\ (Quiet => ~Finishing(p))
  BY <1>1, HeadType
<1>3. CASE RecvLinkOpen(n)
  <2>1. p.kind = "open" /\ p.link \in Link
    BY <1>2, <1>3, MessageFields DEF RecvLinkOpen, Is
  <2>2. SendResults \subseteq BOOLEAN
    BY DEF SendResults
  <2>3. CASE p.uuid = n
    <3>1. PICK a \in Addrs, sent \in SendResults : Step(n, LinkOpened(d, p.link, a, sent))
      BY <1>3, <2>3 DEF RecvLinkOpen
    <3>2. Evolves(n, d, LinkOpened(d, p.link, a, sent))
      BY <1>2, <2>1, <2>2, LinkOpenedEvolves
    <3> QED
      BY <1>1, <3>1, <3>2, EvolvingStep
  <2>4. CASE p.uuid # n
    BY <1>1, <1>2, <1>3, <2>4, EvolvesReflexive, EvolvingStep DEF RecvLinkOpen
  <2> QED
    BY <2>3, <2>4
<1>4. CASE RecvLinkAck(n)
  BY <1>1, <1>2, <1>4, LinkAckedEvolves, EvolvingStep DEF RecvLinkAck
<1>5. CASE RecvLinkClose(n)
  <2>1. p.kind = "close" /\ p.reason \in WireReasons /\ Step(n, LinkClosed(d, p.reason))
    BY <1>2, <1>5, MessageFields DEF RecvLinkClose, Is
  <2>2. Quiet => p.reason # SUCCESS
    BY <1>2, <2>1 DEF Finishing
  <2>3. Kept(d, LinkClosed(d, p.reason))
    BY <1>2, <2>1, LinkClosedEvolves
  <2>4. Quiet => Evolves(n, d, LinkClosed(d, p.reason))
    BY <1>2, <2>1, <2>2, LinkClosedEvolves
  <2> QED
    BY <1>1, <2>1, <2>3, <2>4, StepPreserves
<1>6. CASE RecvTransStart(n)
  <2>1. p.kind = "seg" /\ p.tn \in Byte /\ p.pdu \in PDU /\ Step(n, TransStart(d, p))
    BY <1>2, <1>6, MessageFields DEF RecvTransStart, Is
  <2>2. Quiet => p.pdu # COMPLETE
    BY <1>2, <2>1 DEF Finishing
  <2>3. Kept(d, TransStart(d, p))
    BY <1>2, <2>1, TransStartEvolves
  <2>4. Quiet => Evolves(n, d, TransStart(d, p))
    BY <1>2, <2>1, <2>2, TransStartEvolves
  <2> QED
    BY <1>1, <2>1, <2>3, <2>4, StepPreserves
<1>7. CASE RecvTransContinue(n)
  <2>1. p.seg \in 0 .. 2 /\ p.pdu \in PDU /\ Step(n, TransContinue(d, p))
    BY <1>2, <1>7, MessageFields DEF RecvTransContinue, Is
  <2> QED
    BY <1>1, <1>2, <2>1, TransContinueEvolves, EvolvingStep
<1>8. CASE RecvTransAck(n)
  BY <1>1, <1>2, <1>8, TransAckedEvolves, EvolvingStep DEF RecvTransAck
<1>9. CASE HandleDelayAck(n)
  <2>1. PICK acked \in SendResults, valid \in Verdicts(d.rxpdu) :
          Step(n, AckAndProcess(n, d, acked, valid))
    BY <1>9 DEF HandleDelayAck
  <2>2. acked \in BOOLEAN /\ valid \in BOOLEAN
    BY <2>1 DEF SendResults, Verdicts
  <2> QED
    BY <1>1, <1>2, <2>1, <2>2, AckAndProcessEvolves, EvolvingStep
<1>10. CASE HandleDelayPdu(n)
  BY <1>1, <1>2, <1>10, FirstSendEvolves, EvolvingStep DEF HandleDelayPdu
<1>11. CASE HandleRetry(n)
  BY <1>1, <1>2, <1>11, RetryEvolves, EvolvingStep DEF HandleRetry
<1>12. CASE HandleLinkLoss(n)
  BY <1>1, <1>2, <1>12, LinkLossEvolves, EvolvingStep DEF HandleLinkLoss
<1>13. CASE HandleStaleObject(n)
  BY <1>1, <1>2, <1>13, EvolvesReflexive, EvolvingStep DEF HandleStaleObject
<1> QED
  BY <1>3, <1>4, <1>5, <1>6, <1>7, <1>8, <1>9, <1>10, <1>11, <1>12, <1>13 DEF Handle


\* The other steps keep the types; they keep the invariant unless a packet of
\* another link reports success.
LEMMA NextPreserves ==
  ASSUME TypeOK, [Next]_vars
  PROVE  /\ TypeOK'
         /\ AInv /\ (\A p \in Overheard : ~Finishing(p)) => AInv'
<1> DEFINE Harmless == \A p \in Overheard : ~Finishing(p)
<1>0. Prov \in Node /\ Dev \in Node /\ Prov # Dev
  BY DEF Node, Prov, Dev
<1>1. /\ dev \in [Node -> Device] /\ q \in [Node -> Seq(Message)]
      /\ session \in Nat /\ noise \in Nat
  BY DEF TypeOK
<1>2. CASE \E n \in Node : Handle(n)
  BY <1>2, HandlePreserves
<1>3. CASE Connect
  <2>1. PICK a \in Addrs :
          dev' = [dev EXCEPT ![Prov] =
                    Arm([Created(dev[Prov], a) EXCEPT !.link = session + 1, !.tx = 255,
                           !.acked = 0, !.state = LINK_OPENING], "retry")]
    BY <1>3 DEF Connect
  <2> DEFINE c == Created(dev[Prov], a)
             s == [c EXCEPT !.link = session + 1, !.tx = 255, !.acked = 0, !.state = LINK_OPENING]
             e == Arm(s, "retry")
             pkts == <<LinkOpenPkt(session + 1, Dev)>>
  <2>2. q' = [q EXCEPT ![Dev] = Enqueue(@, pkts)] /\ session' = session + 1 /\ noise' = noise
    BY <1>3 DEF Connect
  <2>3. Evolves(Prov, dev[Prov], c) /\ c \in Device
    <3>1. dev[Prov] \in Device
      BY <1>0, <1>1
    <3> QED
      BY <3>1, ResetEvolves, EvolvesKept DEF Kept
  <2> HIDE DEF c
  <2>4. s \in Device
    <3>1. ASSUME NEW x \in State, NEW l \in Link, NEW t \in Byte, NEW u \in Byte
          PROVE  [c EXCEPT !.link = l, !.tx = t, !.acked = u, !.state = x] \in Device
      BY <2>3 DEF Device
    <3>2. 255 \in Byte /\ 0 \in Byte /\ session + 1 \in Link
      BY <1>1 DEF Byte, Link
    <3> QED
      BY <3>1, <3>2, StateType
  <2>5. LINK_OPENING # COMPLETE /\ LINK_OPENING # LINK_CLOSING
    BY DEF LINK_OPENING, COMPLETE, LINK_CLOSING
  <2>6. Evolves(Prov, c, s)
    BY <2>3, <2>4, <2>5 DEF Evolves, Unfinished, Device
  <2> HIDE DEF s
  <2>7. Evolves(Prov, s, e)
    BY <2>4, ArmEvolves DEF Timer
  <2>8. dev' = [dev EXCEPT ![Prov] = e]
    BY <2>1 DEF s, c
  <2> HIDE DEF e
  <2>9. Evolves(Prov, dev[Prov], e)
    BY <2>3, <2>6, <2>7, EvolvesTransitive
  <2>10. pkts \in Seq(Packet) /\ NoneFinishing(pkts)
    <3>1. LinkOpenPkt(session + 1, Dev) \in Packet /\ ~Finishing(LinkOpenPkt(session + 1, Dev))
      BY <1>1, PacketType DEF Link, Finishing, LinkOpenPkt
    <3> QED
      BY <3>1 DEF NoneFinishing
  <2> HIDE DEF pkts
  <2>11. TypeOK'
    <3>1. e \in Device
      BY <2>9, EvolvesKept DEF Kept
    <3>2. dev' \in [Node -> Device]
      BY <1>1, <2>8, <3>1
    <3>3. Enqueue(q[Dev], pkts) \in Seq(Message)
      BY <1>0, <1>1, <2>10, EnqueueType
    <3>4. q' \in [Node -> Seq(Message)]
      BY <1>1, <2>2, <3>3
    <3> QED
      BY <1>1, <2>2, <3>2, <3>4 DEF TypeOK
  <2>12. ASSUME dev[Dev].provisioned PROVE dev'[Dev].provisioned
    BY <1>0, <1>1, <2>8, <2>12
  <2>13. ASSUME Quiet PROVE Quiet'
    <3>1. Unfinished(e)
      BY <1>0, <2>9, <2>13 DEF Evolves, Quiet
    <3>2. \A n \in Node : Unfinished(dev'[n])
      BY <1>1, <2>8, <2>13, <3>1 DEF Quiet
    <3>3. \A n \in Node : NoneFinishing(q'[n])
      BY <1>1, <2>2, <2>10, <2>13, EnqueueType DEF Quiet
    <3> QED
      BY <3>2, <3>3 DEF Quiet
  <2> QED
    BY <2>11, <2>12, <2>13 DEF AInv
<1>4. CASE \E n \in Node : Fire(n)
  <2>1. PICK n \in Node : Fire(n)
    BY <1>4
  <2>2. /\ q' = [q EXCEPT ![n] = Append(@, TimeoutMsg(dev[n].addr))]
        /\ dev' = dev /\ session' = session /\ noise' = noise
    BY <2>1 DEF Fire
  <2>3. dev[n].addr \in Addrs
    BY <1>1 DEF Device
  <2>4. TypeOK'
    BY <1>1, <2>2, <2>3, TimeoutType DEF TypeOK
  <2>5. Quiet => Quiet'
    BY <1>1, <2>2, <2>3, TimeoutType DEF Quiet
  <2> QED
    BY <2>2, <2>4, <2>5 DEF AInv
<1>5. CASE \E n \in Node : Lose(n)
  <2>1. PICK n \in Node : Lose(n)
    BY <1>5
  <2>2. /\ q[n] # << >> /\ q' = [q EXCEPT ![n] = Tail(@)] /\ noise' = noise + 1
        /\ dev' = dev /\ session' = session
    BY <2>1 DEF Lose
  <2>3. TypeOK'
    BY <1>1, <2>2, TailType DEF TypeOK
  <2>4. Quiet => Quiet'
    BY <1>1, <2>2, TailType DEF Quiet
  <2> QED
    BY <2>2, <2>3, <2>4 DEF AInv
<1>6. CASE \E n \in Node : Overhear(n)
  <2>1. PICK n \in Node, p \in Overheard : /\ q' = [q EXCEPT ![n] = Enqueue(@, <<p>>)]
                                           /\ noise' = noise + 1
                                           /\ dev' = dev /\ session' = session
    BY <1>6 DEF Overhear
  <2>2. <<p>> \in Seq(Packet) /\ (Harmless => NoneFinishing(<<p>>))
    BY OverheardAssumption DEF NoneFinishing
  <2>3. TypeOK'
    <3>1. Enqueue(q[n], <<p>>) \in Seq(Message)
      BY <1>1, <2>2, EnqueueType
    <3>2. q' \in [Node -> Seq(Message)]
      BY <1>1, <2>1, <3>1
    <3> QED
      BY <1>1, <2>1, <3>2 DEF TypeOK
  <2>4. Quiet /\ Harmless => Quiet'
    BY <1>1, <2>1, <2>2, EnqueueType DEF Quiet
  <2> QED
    BY <2>1, <2>3, <2>4 DEF AInv
<1>7. CASE UNCHANGED vars
  BY <1>7 DEF vars, TypeOK, AInv, Quiet
<1> QED
  BY <1>2, <1>3, <1>4, <1>5, <1>6, <1>7 DEF Next

\* The system starts typed and quiet.
LEMMA InitHolds == Init => TypeOK /\ AInv
<1> SUFFICES ASSUME Init PROVE TypeOK /\ AInv
  OBVIOUS
<1>1. PICK a \in Addrs :
        dev = [n \in Node |->
                [state |-> IDLE, link |-> 0, tx |-> 0, rx |-> 0, acked |-> 0, retry |-> 0,
                 armed |-> FALSE, timer |-> "delay_ack", reason |-> SUCCESS, rxpdu |-> NONE,
                 got |-> {}, addr |-> a, out |-> <<>>, heard |-> <<>>, sent |-> {},
                 ended |-> NOT_ENDED, udb |-> n = Dev, provisioned |-> FALSE]]
  BY DEF Init
<1>2. q = [n \in Node |-> << >>] /\ session = 0 /\ noise = 0
  BY DEF Init
<1>3. /\ IDLE \in State /\ 0 \in Link /\ 0 \in Byte /\ "delay_ack" \in Timer
      /\ SUCCESS \in Reason /\ NOT_ENDED \in Ending
  BY StateType, ReasonType DEF Link, Byte, Timer
<1>4. \A n \in Node : dev[n] \in Device
  BY <1>1, <1>3 DEF Device
<1>5. \A n \in Node : Unfinished(dev[n]) /\ NoneFinishing(q[n])
  BY <1>1, <1>2 DEF Unfinished, NoneFinishing, IDLE, COMPLETE, NONE, LINK_CLOSING,
                    NOT_ENDED, SUCCESS
<1>6. dev \in [Node -> Device]
  BY <1>1, <1>4
<1> QED
  BY <1>2, <1>5, <1>6 DEF TypeOK, AInv, Quiet

-----------------------------------------------------------------------------
(***************************************************************************)
(* NoAssert and Supervised.  The assertion is reached, and a session left  *)
(* without its timer, after a transaction number of the wrong half.  So    *)
(* each node keeps to its half of the numbers while it sends: the          *)
(* provisioner below 128, the device from 128 on.                          *)
(***************************************************************************)

\* A packet for node n has a number of its peer's half, and what acknowledges
\* the provisioner is not the number it has before its first PDU.
Sane(n, p) ==
  /\ p.kind = "seg" => ValidPeerTn(n, p.tn)
  /\ p.kind = "trans_ack" /\ n = Prov => p.tn # 255
AllSane(n, s) == \A i \in DOMAIN s : Sane(n, s[i])

\* The numbers of the provisioner last: it is not at the end of its half.
NumbersLast == dev[Prov].tx # 127

\* A link that is being opened is the provisioner's, which retransmits.
Opening(n, d) == n = Prov /\ d.timer = "retry" /\ d.tx = 255

\* What the handlers of node n keep of its object.
Steady(n, d) ==
  /\ d.timer = "delay_pdu" => d.state \in PDU
  /\ d.timer = "delay_ack" /\ d.state # IDLE => ValidPeerTn(n, d.rx)
  /\ n = Prov => /\ d.state # LINK_OPENED /\ (d.state >= INVITE => d.tx <= 127)
                 /\ d.state = LINK_OPENING => Opening(n, d)
  /\ n = Dev /\ d.state # IDLE =>
       d.tx >= 127 /\ (d.state \in PDU /\ d.timer \in {"delay_pdu", "retry"} => d.tx >= 128)
  /\ AllSane(Peer(n), d.out)

\* It has a timer, if the bearer refuses nothing.
Timed(n, d) ==
  /\ d.state # IDLE => d.armed
  /\ d.state = LINK_OPENING => Opening(n, d)

Good(n, d) == Steady(n, d) /\ (~SendMayFail => Timed(n, d))

\* Sequences of packets are sane together.
LEMMA SaneTogether ==
  ASSUME NEW n \in Node, NEW s \in Seq(Message), NEW t \in Seq(Message), AllSane(n, s), AllSane(n, t)
  PROVE  AllSane(n, s \o t)
BY DEF AllSane

\* One packet that is sane.
LEMMA SaneAlone ==
  ASSUME NEW n \in Node, NEW p \in Packet, Sane(n, p)
  PROVE  <<p>> \in Seq(Packet) /\ AllSane(n, <<p>>)
BY DEF AllSane

\* Packets of the link layer are sane for everyone.
LEMMA LinkPacketsSane ==
  ASSUME NEW n \in Node, NEW l, NEW why, NEW uuid
  PROVE  Sane(n, LinkOpenPkt(l, uuid)) /\ Sane(n, LinkAckPkt(l)) /\ Sane(n, LinkClosePkt(l, why))
BY DEF Sane, LinkOpenPkt, LinkAckPkt, LinkClosePkt

\* An update that keeps the fields Good looks at.
LEMMA UpdateGood ==
  ASSUME NEW n \in Node, NEW d \in Device, Good(n, d), NEW e \in Device,
         e.state = d.state, e.timer = d.timer, e.tx = d.tx, e.rx = d.rx, e.armed = d.armed,
         e.out = d.out
  PROVE  Good(n, e)
BY DEF Good, Steady, Timed, Opening

\* Handing sane packets to the bearer.
LEMMA EmitGood ==
  ASSUME NEW n \in Node, NEW d \in Device, Good(n, d), NEW pkts \in Seq(Packet),
         AllSane(Peer(n), pkts)
  PROVE  Good(n, Emit(d, pkts)) /\ Emit(d, pkts) \in Device
<1> DEFINE e == Emit(d, pkts)
<1>1. d.out \in Seq(Packet) /\ d.out \o pkts \in Seq(Packet)
  BY DEF Device
<1>2. e \in Device
  BY <1>1 DEF Emit, Device
<1>3. Seq(Packet) \subseteq Seq(Message)
  BY DEF Message
<1>4. /\ e.state = d.state /\ e.timer = d.timer /\ e.tx = d.tx /\ e.rx = d.rx /\ e.armed = d.armed
      /\ e.out = d.out \o pkts
  BY DEF Emit, Device
<1>5. AllSane(Peer(n), d.out)
  BY DEF Good, Steady
<1>6. AllSane(Peer(n), e.out)
  BY <1>1, <1>3, <1>4, <1>5, NodeType, SaneTogether
<1> HIDE DEF e
<1>7. Good(n, e)
  BY <1>4, <1>6 DEF Good, Steady, Timed, Opening
<1> QED
  BY <1>2, <1>7 DEF e

\* Starting the link monitor.
LEMMA MonitorGood ==
  ASSUME NEW n \in Node, NEW d \in Device, Good(n, d), ~(n = Prov /\ d.state = LINK_OPENING)
  PROVE  Good(n, Arm(d, "monitor")) /\ Arm(d, "monitor") \in Device
<1> DEFINE e == Arm(d, "monitor")
<1>1. /\ e.state = d.state /\ e.timer = "monitor" /\ e.tx = d.tx /\ e.rx = d.rx /\ e.armed = TRUE
      /\ e.out = d.out /\ e \in Device
  BY DEF Arm, Device, Timer
<1> HIDE DEF e
<1>2. Steady(n, e)
  BY <1>1 DEF Good, Steady
<1>3. ~SendMayFail => Timed(n, e)
  BY <1>1 DEF Good, Timed, Opening
<1> QED
  BY <1>1, <1>2, <1>3 DEF Good, e

\* The objects the code resets.
LEMMA ResetGood ==
  ASSUME NEW n \in Node, NEW d \in Device, AllSane(Peer(n), d.out), NEW why \in Ending
  PROVE  Good(n, Deleted(d, why))
<1> DEFINE e == Deleted(d, why)
<1>1. e.state = IDLE /\ e.timer = "delay_ack" /\ e.out = d.out
  BY DEF Deleted, Zeroed, Device
<1> HIDE DEF e
<1>2. Good(n, e)
  BY <1>1 DEF Good, Steady, Timed, IDLE, LINK_OPENING, LINK_OPENED, INVITE
<1> QED
  BY <1>2 DEF e

\* Scheduling a PDU other than the invite.
LEMMA SendPduGood ==
  ASSUME NEW n \in Node, NEW d \in Device, Good(n, d), NEW pdu \in PDU \ {INVITE},
         n = Prov => d.tx # 127
  PROVE  Good(n, SendPdu(n, d, pdu))
<1> DEFINE tn == NextTn(n, d.tx, pdu)
           e == Arm([d EXCEPT !.state = pdu, !.tx = tn], "delay_pdu")
<1>1. CASE ~MaySend(d.state, pdu)
  BY <1>1 DEF SendPdu
<1>2. CASE MaySend(d.state, pdu)
  <2>1. d.state >= INVITE /\ d.state # IDLE /\ d.state \in Nat
    <3>1. d.state \in State
      BY DEF Device
    <3> QED
      BY <1>2, <3>1 DEF MaySend, PDU, State, IDLE, INVITE, CAPABILITES, START, PUBLIC_KEY,
             INPUT_COMPLETE, CONFIRMATION, RANDOM, DATA, COMPLETE, FAILED
  <2>2. d.tx \in Byte /\ (n = Prov => d.tx < 127) /\ (n = Dev => d.tx >= 127)
    <3>1. d.tx \in Byte
      BY DEF Device
    <3> QED
      BY <2>1, <3>1 DEF Good, Steady, Byte
  <2>3. tn \in Byte /\ (n = Prov => tn <= 127) /\ (n = Dev => tn >= 128)
    BY <2>2, NodeType DEF NextTn, ProvNextTn, DevNextTn, Byte
  <2> HIDE DEF tn
  <2>4. e.state = pdu /\ e.timer = "delay_pdu" /\ e.tx = tn /\ e.armed = TRUE /\ e.out = d.out
    BY DEF Arm, Device
  <2>5. SendPdu(n, d, pdu) = e
    BY <1>2 DEF SendPdu, tn
  <2> HIDE DEF e
  <2>6. pdu # LINK_OPENING /\ pdu # LINK_OPENED
    BY DEF PDU, LINK_OPENING, LINK_OPENED, INVITE, FAILED
  <2>7. Steady(n, e)
    BY <2>3, <2>4, <2>6 DEF Good, Steady, Byte
  <2>8. Timed(n, e)
    BY <2>4, <2>6 DEF Timed
  <2> QED
    BY <2>5, <2>7, <2>8 DEF Good
<1> QED
  BY <1>1, <1>2

\* Closing the link; the timer may have been stopped before.
LEMMA LinkCloseGood ==
  ASSUME NEW n \in Node, NEW d \in Device, Steady(n, d), d.state > LINK_OPENING, NEW why \in Reason
  PROVE  Good(n, LinkClose(d, why))
<1> DEFINE c == [d EXCEPT !.state = LINK_CLOSING, !.reason = why, !.retry = 0]
           p == LinkClosePkt(d.link, WireReason(why))
           e == Arm(Emit(c, <<p>>), "retry")
<1>1. d.state \in State /\ d.tx \in Byte /\ d.out \in Seq(Packet)
  BY DEF Device
<1>2. LinkClose(d, why) = e
  BY <1>1 DEF LinkClose, State, LINK_OPENING
<1>3. p \in Packet /\ Sane(Peer(n), p)
  BY ReasonType, PacketType, LinkPacketsSane, NodeType DEF Device
<1> HIDE DEF p
<1>4. /\ e.state = LINK_CLOSING /\ e.timer = "retry" /\ e.tx = d.tx /\ e.armed = TRUE
      /\ e.out = d.out \o <<p>>
  BY DEF Arm, Emit, Device
<1> HIDE DEF e
<1>5. AllSane(Peer(n), e.out)
  <2>1. AllSane(Peer(n), <<p>>) /\ <<p>> \in Seq(Packet)
    BY <1>3, NodeType, SaneAlone
  <2>2. Seq(Packet) \subseteq Seq(Message)
    BY DEF Message
  <2>3. AllSane(Peer(n), d.out) /\ Peer(n) \in Node
    BY NodeType DEF Steady
  <2>4. d.out \in Seq(Message) /\ <<p>> \in Seq(Message)
    BY <1>1, <2>1, <2>2
  <2>5. AllSane(Peer(n), d.out \o <<p>>)
    BY <2>1, <2>3, <2>4, SaneTogether
  <2> QED
    BY <1>4, <2>5
<1>6. (n = Prov => d.tx <= 127) /\ (n = Dev => d.tx >= 127)
  BY <1>1 DEF Steady, State, IDLE, LINK_OPENING, LINK_OPENED, INVITE
<1>7. LINK_CLOSING \notin PDU /\ LINK_CLOSING # LINK_OPENING /\ LINK_CLOSING # LINK_OPENED
  BY DEF LINK_CLOSING, PDU, LINK_OPENING, LINK_OPENED, INVITE, FAILED
<1>8. Steady(n, e) /\ Timed(n, e)
  BY <1>4, <1>5, <1>6, <1>7 DEF Steady, Timed
<1> QED
  BY <1>2, <1>8 DEF Good

\* Sending the segments of a PDU.
LEMMA EmitPduGood ==
  ASSUME NEW n \in Node, NEW d \in Device, Good(n, d), d.state \in PDU,
         d.timer \in {"delay_pdu", "retry"}
  PROVE  Good(n, EmitPdu(d)) /\ EmitPdu(d) \in Device
<1>1. EmitPdu(d) \in Device
  BY EmitPduEvolves DEF Evolves
<1>2. d.link \in Link /\ d.tx \in Byte /\ d.state \in PDU
  BY DEF Device
<1>3. LastSeg(d.state) \in 0 .. 2
  BY DEF LastSeg
<1>4. Segments(d) \in Seq(Packet)
  <2>1. \A i \in 1 .. LastSeg(d.state) + 1 : i - 1 \in 0 .. 2
    BY <1>3
  <2>2. \A i \in 1 .. LastSeg(d.state) + 1 : SegPkt(d.link, d.tx, d.state, i - 1) \in Packet
    BY <1>2, <2>1, PacketType
  <2> QED
    BY <1>3, <2>2 DEF Segments
<1>5. ValidPeerTn(Peer(n), d.tx)
  <2>1. n = Prov => d.tx <= 127
    BY <1>2 DEF Good, Steady, PDU
  <2>2. n = Dev => d.tx >= 128
    BY <1>2 DEF Good, Steady, PDU, IDLE, INVITE
  <2> QED
    BY <1>2, <2>1, <2>2 DEF ValidPeerTn, Peer, Node, Prov, Dev, Byte
<1>6. AllSane(Peer(n), Segments(d))
  BY <1>5 DEF AllSane, Sane, Segments, SegPkt
<1>7. Good(n, Emit(d, Segments(d))) /\ Emit(d, Segments(d)) \in Device
  BY <1>4, <1>6, EmitGood
<1>8. Good(n, EmitPdu(d))
  BY <1>1, <1>7, UpdateGood DEF EmitPdu, Device
<1> QED
  BY <1>1, <1>8

\* What is sent in answer to a PDU is a PDU, and no invite.
LEMMA AnswerType ==
  ASSUME NEW n, NEW pdu, Answer(n, pdu) # NONE
  PROVE  Answer(n, pdu) \in PDU \ {INVITE}
BY DEF Answer, PDU, NONE, INVITE, CAPABILITES, START, PUBLIC_KEY, CONFIRMATION, RANDOM, DATA,
       COMPLETE, FAILED

\* The state moves on to the PDU while the link monitor runs.
LEMMA AcceptGood ==
  ASSUME NEW n \in Node, NEW d \in Device, Good(n, d), d.timer = "monitor", d.state # IDLE,
         n = Prov => d.state # LINK_OPENING, NEW pdu \in PDU
  PROVE  Good(n, Accept(d, pdu)) /\ Accept(d, pdu) \in Device
<1> DEFINE e == Accept(d, pdu)
<1>1. /\ pdu # IDLE /\ pdu # LINK_OPENING /\ pdu # LINK_OPENED
  BY DEF PDU, IDLE, LINK_OPENING, LINK_OPENED, INVITE, FAILED
<1>2. e \in Device
  BY AcceptType
<1>3. e.state = pdu /\ e.timer = "monitor" /\ e.tx = d.tx /\ e.armed = d.armed /\ e.out = d.out
  BY DEF Accept, Device
<1>4. (n = Prov => d.tx <= 127) /\ (n = Dev => d.tx >= 127)
  <2>1. d.state \in State /\ d.tx \in Byte
    BY DEF Device
  <2> QED
    BY <2>1 DEF Good, Steady, State, IDLE, LINK_OPENING, LINK_OPENED, INVITE
<1> HIDE DEF e
<1>5. Steady(n, e)
  BY <1>1, <1>3, <1>4 DEF Good, Steady
<1>6. ~SendMayFail => Timed(n, e)
  BY <1>1, <1>3 DEF Good, Timed
<1>7. Good(n, e)
  BY <1>5, <1>6 DEF Good
<1> QED
  BY <1>2, <1>7 DEF e

\* Processing a PDU, whatever comes of its content.
LEMMA ProvPduProcessGood ==
  ASSUME NEW n \in Node, NEW d \in Device, Good(n, d), d.timer = "monitor", d.state # IDLE,
         n = Prov => d.tx # 127 /\ d.state # LINK_OPENING,
         NEW pdu \in PDU \cup {NONE}, NEW valid \in BOOLEAN
  PROVE  Good(n, ProvPduProcess(n, d, pdu, valid))
<1> DEFINE e == Accept(d, pdu)
<1>1. CASE pdu = NONE \/ ~MayAccept(d.state, pdu) \/ ~valid
  <2>1. FAILED \in PDU \ {INVITE}
    BY DEF PDU, INVITE, FAILED
  <2> QED
    BY <1>1, <2>1, SendPduGood DEF ProvPduProcess
<1>2. CASE ~(pdu = NONE \/ ~MayAccept(d.state, pdu) \/ ~valid)
  <2>1. Good(n, e) /\ e \in Device
    BY <1>2, AcceptGood
  <2>2. e.tx = d.tx
    BY DEF Accept, Device
  <2> HIDE DEF e
  <2>3. Answer(n, pdu) # NONE => Good(n, SendPdu(n, e, Answer(n, pdu)))
    BY <2>1, <2>2, AnswerType, SendPduGood
  <2> QED
    BY <1>2, <2>1, <2>3 DEF ProvPduProcess, e
<1> QED
  BY <1>1, <1>2

\* meshx_pb_adv_handle_delay, acknowledgement due: the number of the PDU is of
\* the peer's half, so the branch for the wrong half is never taken.
LEMMA Acknowledged ==
  ASSUME NEW n \in Node, NEW d \in Device, Good(n, d), d.timer = "delay_ack", d.state # IDLE,
         NEW acked \in BOOLEAN, NEW valid \in BOOLEAN
  PROVE  \E b \in Device :
           /\ b.state = d.state /\ b.tx = d.tx /\ b.timer = "monitor" /\ Good(n, b)
           /\ b.sent = d.sent
           /\ AckAndProcess(n, d, acked, valid) = ProvPduProcess(n, b, d.rxpdu, valid)
<1> DEFINE p == TransAckPkt(d.link, d.rx)
           s == [Emit(d, <<p>>) EXCEPT !.acked = d.rx]
           a == IF acked THEN s ELSE d
           c == [a EXCEPT !.rxpdu = NONE]
           b == Arm(c, "monitor")
<1>1. d.link \in Link /\ d.rx \in Byte /\ d.rxpdu \in PDU \cup {NONE}
  BY DEF Device
<1>2. ValidPeerTn(n, d.rx)
  BY DEF Good, Steady
<1>3. p \in Packet /\ Sane(Peer(n), p)
  BY <1>1, <1>2, PacketType DEF Sane, TransAckPkt, ValidPeerTn, Peer, Node, Prov, Dev
<1>4. Good(n, Emit(d, <<p>>)) /\ Emit(d, <<p>>) \in Device
  <2> HIDE DEF p
  <2> QED
    BY <1>3, NodeType, SaneAlone, EmitGood
<1>5. /\ Emit(d, <<p>>).state = d.state /\ Emit(d, <<p>>).tx = d.tx
      /\ Emit(d, <<p>>).sent = d.sent
  BY DEF Emit, Device
<1>6. s \in Device /\ s.state = d.state /\ s.tx = d.tx /\ s.sent = d.sent /\ Good(n, s)
  <2> HIDE DEF p
  <2>1. s \in Device
    BY <1>1, <1>4 DEF Device
  <2> QED
    BY <1>4, <1>5, <2>1, UpdateGood DEF Device
<1> HIDE DEF s
<1>7. a \in Device /\ a.state = d.state /\ a.tx = d.tx /\ a.sent = d.sent /\ Good(n, a)
  BY <1>6
<1> HIDE DEF a
<1>8. c \in Device /\ c.state = d.state /\ c.tx = d.tx /\ c.sent = d.sent /\ Good(n, c)
  <2>1. c \in Device
    BY <1>7 DEF Device
  <2> QED
    BY <1>7, <2>1, UpdateGood DEF Device
<1> HIDE DEF c
<1>9. ~(n = Prov /\ d.state = LINK_OPENING)
  BY DEF Good, Steady, Opening
<1>10. b \in Device /\ b.state = d.state /\ b.tx = d.tx /\ b.sent = d.sent /\ b.timer = "monitor" /\ Good(n, b)
  <2>1. Good(n, b) /\ b \in Device
    BY <1>8, <1>9, MonitorGood
  <2> QED
    BY <1>8, <2>1 DEF Arm, Device
<1>11. AckAndProcess(n, d, acked, valid) = ProvPduProcess(n, b, d.rxpdu, valid)
  BY <1>2 DEF AckAndProcess, a, b, c, s
<1> HIDE DEF b
<1> QED
  BY <1>10, <1>11

\* So the handler leaves the object good.
LEMMA AckAndProcessGood ==
  ASSUME NEW n \in Node, NEW d \in Device, Good(n, d), d.timer = "delay_ack", d.state # IDLE,
         n = Prov => d.tx # 127, NEW acked \in BOOLEAN, NEW valid \in BOOLEAN
  PROVE  Good(n, AckAndProcess(n, d, acked, valid))
<1>1. PICK b \in Device : /\ b.state = d.state /\ b.tx = d.tx /\ b.timer = "monitor" /\ Good(n, b)
                          /\ AckAndProcess(n, d, acked, valid) = ProvPduProcess(n, b, d.rxpdu, valid)
  BY Acknowledged
<1>2. ~(n = Prov /\ d.state = LINK_OPENING)
  BY DEF Good, Steady, Opening
<1>3. d.rxpdu \in PDU \cup {NONE}
  BY DEF Device
<1> QED
  BY <1>1, <1>2, <1>3, ProvPduProcessGood

\* meshx_pb_adv_handle_delay, PDU due.
LEMMA FirstSendGood ==
  ASSUME NEW n \in Node, NEW d \in Device, Good(n, d), d.state \in PDU, d.timer = "delay_pdu"
  PROVE  Good(n, FirstSend(d))
<1> DEFINE s == EmitPdu(d)
           f == [s EXCEPT !.retry = 0]
           e == Arm(f, "retry")
<1>1. Good(n, s) /\ s \in Device /\ s.state = d.state /\ s.timer = "delay_pdu"
  <2>1. Good(n, s) /\ s \in Device
    BY EmitPduGood
  <2> QED
    BY <2>1 DEF EmitPdu, Emit, Device
<1> HIDE DEF s
<1>2. /\ e.state = s.state /\ e.timer = "retry" /\ e.tx = s.tx /\ e.rx = s.rx /\ e.armed = TRUE
      /\ e.out = s.out
  BY <1>1 DEF Arm, Device
<1>3. FirstSend(d) = e
  BY DEF FirstSend, s
<1> HIDE DEF e, f
<1>4. s.state # LINK_OPENING
  BY <1>1 DEF PDU, LINK_OPENING, INVITE
<1>5. Steady(n, e)
  BY <1>1, <1>2, <1>4 DEF Good, Steady
<1>6. Timed(n, e)
  BY <1>2, <1>4 DEF Timed
<1> QED
  BY <1>3, <1>5, <1>6 DEF Good

\* meshx_pb_adv_handle_link_loss: a link that is being opened is not monitored,
\* so the close starts the timer again.
LEMMA LinkLossGood ==
  ASSUME NEW n \in Node, NEW d \in Device, Good(n, d), d.timer = "monitor", d.state # IDLE
  PROVE  Good(n, LinkLoss(d))
<1> DEFINE c == [d EXCEPT !.armed = FALSE]
<1>1. /\ c \in Device /\ c.state = d.state /\ c.timer = d.timer /\ c.tx = d.tx /\ c.rx = d.rx
      /\ c.out = d.out
  BY DEF Device
<1>2. LinkLoss(d) = LinkClose(c, LINK_LOSS)
  BY DEF LinkLoss
<1> HIDE DEF c
<1>3. Steady(n, c)
  BY <1>1 DEF Good, Steady, Opening
<1>4. CASE d.state > LINK_OPENING
  BY <1>1, <1>2, <1>3, <1>4, ReasonType, LinkCloseGood
<1>5. CASE ~(d.state > LINK_OPENING)
  <2>1. d.state = LINK_OPENING
    BY <1>5 DEF Device, State, IDLE, LINK_OPENING
  <2>2. LinkLoss(d) = c
    BY <1>1, <1>2, <2>1 DEF LinkClose, LINK_OPENING
  <2>3. SendMayFail
    BY <2>1 DEF Good, Timed, Opening
  <2> QED
    BY <1>3, <2>2, <2>3, BoundsAssumption DEF Good
<1> QED
  BY <1>4, <1>5

\* An object whose retries are counted.
LEMMA CountGood ==
  ASSUME NEW n \in Node, NEW d \in Device, Good(n, d)
  PROVE  Good(n, [d EXCEPT !.retry = @ + 1]) /\ [d EXCEPT !.retry = @ + 1] \in Device
<1>1. [d EXCEPT !.retry = @ + 1] \in Device
  BY SMTT(30) DEF Device
<1> QED
  BY <1>1, UpdateGood DEF Device

\* meshx_pb_adv_handle_retry
LEMMA RetryGood ==
  ASSUME NEW n \in Node, NEW d \in Device, Good(n, d), d.timer = "retry"
  PROVE  Good(n, Retry(d))
<1>1. ASSUME NEW p \in Packet, Sane(Peer(n), p), NEW why \in Ending
      PROVE  /\ Good(n, Deleted(Emit(d, <<p>>), why))
             /\ Good(n, [Emit(d, <<p>>) EXCEPT !.retry = @ + 1])
  <2>1. <<p>> \in Seq(Packet) /\ AllSane(Peer(n), <<p>>)
    BY <1>1, NodeType, SaneAlone
  <2> DEFINE e == Emit(d, <<p>>)
  <2>2. Good(n, e) /\ e \in Device
    BY <2>1, EmitGood
  <2> HIDE DEF e
  <2>3. AllSane(Peer(n), e.out)
    BY <2>2 DEF Good, Steady
  <2> QED
    BY <2>2, <2>3, CountGood, ResetGood DEF e
<1>2. d.link \in Link /\ d.reason \in Reason
  BY DEF Device
<1>3. Good(n, RetryOpen(d))
  <2>1. LinkOpenPkt(d.link, Dev) \in Packet /\ Sane(Peer(n), LinkOpenPkt(d.link, Dev))
    BY <1>2, PacketType, NodeType, LinkPacketsSane
  <2>2. RetryOpen(d) \in {Deleted(Emit(d, <<LinkOpenPkt(d.link, Dev)>>), OPEN_TIMEOUT),
                          [Emit(d, <<LinkOpenPkt(d.link, Dev)>>) EXCEPT !.retry = @ + 1]}
    BY DEF RetryOpen
  <2>3. OPEN_TIMEOUT \in Ending
    BY ReasonType
  <2> QED
    BY <1>1, <2>1, <2>2, <2>3
<1>4. Good(n, RetryClose(d))
  <2> DEFINE p == LinkClosePkt(d.link, WireReason(d.reason))
  <2>1. p \in Packet /\ Sane(Peer(n), p)
    BY <1>2, ReasonType, PacketType, NodeType, LinkPacketsSane
  <2>2. RetryClose(d) \in {Deleted(Emit(d, <<p>>), d.reason), [Emit(d, <<p>>) EXCEPT !.retry = @ + 1]}
    BY DEF RetryClose
  <2>3. d.reason \in Ending
    BY <1>2, ReasonType
  <2> HIDE DEF p
  <2> QED
    BY <1>1, <2>1, <2>2, <2>3
<1>5. d.state \in INVITE .. COMPLETE => Good(n, RetryPdu(d))
  <2> SUFFICES ASSUME d.state \in INVITE .. COMPLETE PROVE Good(n, RetryPdu(d))
    OBVIOUS
  <2>1. d.state \in PDU /\ d.state > LINK_OPENING
    BY DEF PDU, LINK_OPENING, INVITE, COMPLETE, FAILED
  <2> DEFINE s == EmitPdu(d)
             e == [s EXCEPT !.retry = @ + 1]
  <2>2. Good(n, s) /\ s \in Device /\ s.state = d.state
    <3>1. Good(n, s) /\ s \in Device
      BY <2>1, EmitPduGood
    <3> QED
      BY <3>1 DEF EmitPdu, Emit, Device
  <2> HIDE DEF s
  <2>3. Good(n, e) /\ e \in Device /\ e.state = d.state
    BY <2>2, CountGood DEF Device
  <2>4. RetryPdu(d) \in {LinkClose(e, TIMEOUT), e}
    BY DEF RetryPdu, s
  <2> HIDE DEF e
  <2>5. Good(n, LinkClose(e, TIMEOUT))
    BY <2>1, <2>3, ReasonType, LinkCloseGood DEF Good
  <2> QED
    BY <2>3, <2>4, <2>5
<1>6. /\ LINK_OPENING # LINK_CLOSING
      /\ LINK_OPENING \notin INVITE .. COMPLETE /\ LINK_CLOSING \notin INVITE .. COMPLETE
  BY DEF LINK_OPENING, LINK_CLOSING, INVITE, COMPLETE
<1>7. CASE d.state = LINK_OPENING
  BY <1>3, <1>6, <1>7 DEF Retry
<1>8. CASE d.state = LINK_CLOSING
  BY <1>4, <1>6, <1>8 DEF Retry
<1>9. CASE d.state \in INVITE .. COMPLETE
  BY <1>5, <1>6, <1>9 DEF Retry
<1>10. CASE d.state \notin {LINK_OPENING, LINK_CLOSING} \cup (INVITE .. COMPLETE)
  BY <1>10 DEF Retry
<1> QED
  BY <1>7, <1>8, <1>9, <1>10

-----------------------------------------------------------------------------
(* The receive handlers keep it too. *)

\* meshx_pb_adv_link_ack of a device whose link is being opened.
LEMMA LinkAckGood ==
  ASSUME NEW d \in Device, AllSane(Prov, d.out), d.tx = 127, d.state = LINK_OPENING,
         d.timer = "delay_ack" => d.rx <= 127, d.timer # "delay_pdu",
         NEW sent \in BOOLEAN, ~sent => SendMayFail
  PROVE  Good(Dev, LinkAck(d, sent))
<1> DEFINE p == LinkAckPkt(d.link)
           e == Arm(Emit([d EXCEPT !.state = LINK_OPENED, !.udb = FALSE], <<p>>), "monitor")
<1>1. Peer(Dev) = Prov /\ Dev # Prov /\ Prov \in Node
  BY DEF Peer, Dev, Prov, Node
<1>2. CASE sent
  <2>1. p \in Packet /\ Sane(Prov, p)
    BY <1>1, PacketType, LinkPacketsSane DEF Device
  <2> HIDE DEF p
  <2>2. /\ e.state = LINK_OPENED /\ e.timer = "monitor" /\ e.tx = 127 /\ e.armed = TRUE
        /\ e.out = d.out \o <<p>>
    BY DEF Arm, Emit, Device
  <2>3. LinkAck(d, sent) = e
    BY <1>2 DEF LinkAck, p
  <2> HIDE DEF e
  <2>4. AllSane(Prov, e.out)
    <3>1. <<p>> \in Seq(Packet) /\ AllSane(Prov, <<p>>)
      BY <1>1, <2>1, SaneAlone
    <3>2. Seq(Packet) \subseteq Seq(Message)
      BY DEF Message
    <3>3. d.out \in Seq(Message) /\ <<p>> \in Seq(Message)
      BY <3>1, <3>2 DEF Device
    <3>4. \A m \in Node : AllSane(m, d.out) /\ AllSane(m, <<p>>) => AllSane(m, d.out \o <<p>>)
      BY <3>3 DEF AllSane
    <3>5. AllSane(Prov, d.out \o <<p>>)
      BY <1>1, <3>1, <3>4
    <3> QED
      BY <2>2, <3>5
  <2>5. Steady(Dev, e)
    BY <1>1, <2>2, <2>4 DEF Steady, LINK_OPENED, LINK_OPENING
  <2>6. Timed(Dev, e)
    BY <2>2 DEF Timed, LINK_OPENED, LINK_OPENING
  <2> QED
    BY <2>3, <2>5, <2>6 DEF Good
<1>3. CASE ~sent
  <2>1. LinkAck(d, sent) = d /\ SendMayFail = TRUE
    BY <1>3, BoundsAssumption DEF LinkAck
  <2>2. Steady(Dev, d)
    BY <1>1 DEF Steady, ValidPeerTn, LINK_OPENING, LINK_OPENED, PDU, INVITE
  <2> QED
    BY <2>1, <2>2 DEF Good
<1> QED
  BY <1>2, <1>3

\* meshx_pb_adv_recv_link_open: the uuid is the device's.
LEMMA LinkOpenedGood ==
  ASSUME NEW d \in Device, Good(Dev, d), NEW l \in Link, NEW a \in Addrs,
         NEW sent \in BOOLEAN, ~sent => SendMayFail
  PROVE  Good(Dev, LinkOpened(d, l, a, sent))
<1> DEFINE c == IF d.state = IDLE THEN Created(d, a) ELSE d
           p == LinkAckPkt(l)
           o == [c EXCEPT !.link = l, !.state = LINK_OPENING, !.tx = 127, !.acked = 255, !.rxpdu = NONE]
<1>0. Dev \in Node /\ Prov \in Node /\ Peer(Dev) = Prov /\ Dev # Prov
  BY DEF Peer, Dev, Prov, Node
<1>1. c \in Device /\ AllSane(Prov, c.out) /\ (d.state # IDLE => c = d)
      /\ (d.state = IDLE => c.state = IDLE /\ c.timer = "delay_ack" /\ c.rx = 0)
  <2>1. Created(d, a) \in Device
    BY ResetEvolves DEF Evolves
  <2>2. /\ Created(d, a).state = IDLE /\ Created(d, a).timer = "delay_ack" /\ Created(d, a).rx = 0
        /\ Created(d, a).out = d.out
    BY DEF Created, Zeroed, Device
  <2>3. AllSane(Prov, d.out)
    BY <1>0 DEF Good, Steady
  <2> QED
    BY <2>1, <2>2, <2>3
<1>2. LinkOpened(d, l, a, sent) =
        CASE c.state > LINK_OPENED -> c
          [] c.state = LINK_OPENED -> IF c.link = l THEN Emit(c, <<p>>) ELSE c
          [] OTHER -> LinkAck(o, sent)
  BY DEF LinkOpened
<1> HIDE DEF c
<1>3. c.state \in State
  BY <1>1 DEF Device
<1>4. Good(Dev, c)
  BY <1>0, <1>1 DEF Good, Steady, Timed, IDLE, LINK_OPENING
<1>5. p \in Packet /\ Sane(Prov, p)
  BY <1>0, PacketType, LinkPacketsSane
<1> HIDE DEF p
<1>6. Good(Dev, Emit(c, <<p>>))
  BY <1>0, <1>1, <1>4, <1>5, SaneAlone, EmitGood
<1>7. CASE c.state >= LINK_OPENED
  <2>1. LinkOpened(d, l, a, sent) \in {c, Emit(c, <<p>>)}
    BY <1>2, <1>3, <1>7 DEF State, LINK_OPENED
  <2> QED
    BY <1>4, <1>6, <2>1
<1>8. CASE c.state < LINK_OPENED
  <2>1. LinkOpened(d, l, a, sent) = LinkAck(o, sent)
    BY <1>2, <1>3, <1>8 DEF State, LINK_OPENED
  <2>2. /\ o.out = c.out /\ o.tx = 127 /\ o.state = LINK_OPENING
        /\ o.timer = c.timer /\ o.rx = c.rx
    BY <1>1 DEF Device
  <2>a. o \in Device
    <3>1. ASSUME NEW x \in State, NEW t \in Byte, NEW u \in Byte
          PROVE  [c EXCEPT !.link = l, !.state = x, !.tx = t, !.acked = u, !.rxpdu = NONE] \in Device
      BY <1>1 DEF Device
    <3>2. 127 \in Byte /\ 255 \in Byte
      BY DEF Byte
    <3> QED
      BY <3>1, <3>2, StateType
  <2> HIDE DEF o
  <2>3. c.timer # "delay_pdu"
    BY <1>3, <1>4, <1>8 DEF Good, Steady, State, PDU, LINK_OPENED, INVITE
  <2>4. c.timer = "delay_ack" => c.rx <= 127
    <3>1. CASE d.state = IDLE
      BY <1>1, <3>1
    <3>2. CASE d.state # IDLE
      BY <1>0, <1>1, <1>4, <3>2 DEF Good, Steady, ValidPeerTn
    <3> QED
      BY <3>1, <3>2
  <2> QED
    BY <1>1, <2>1, <2>2, <2>a, <2>3, <2>4, LinkAckGood
<1> QED
  BY <1>3, <1>7, <1>8 DEF State, LINK_OPENED

\* meshx_pb_adv_recv_link_ack: the provisioner invites under number 0.
LEMMA LinkAckedGood ==
  ASSUME NEW n \in Node, NEW d \in Device, Good(n, d)
  PROVE  Good(n, LinkAcked(n, d))
<1> DEFINE e == Arm([d EXCEPT !.retry = 0, !.state = LINK_OPENED, !.udb = FALSE], "monitor")
           f == Arm([e EXCEPT !.state = INVITE, !.tx = NextTn(n, e.tx, INVITE)], "delay_pdu")
<1>1. CASE d.state \notin {LINK_OPENING, LINK_OPENED}
  BY <1>1 DEF LinkAcked
<1>2. CASE d.state \in {LINK_OPENING, LINK_OPENED}
  <2>1. /\ e.state = LINK_OPENED /\ e.timer = "monitor" /\ e.tx = d.tx /\ e.armed = TRUE
        /\ e.out = d.out /\ e \in Device
    BY StateType DEF Arm, Device, Timer
  <2>2. AllSane(Peer(n), d.out)
    BY DEF Good, Steady
  <2>3. LinkAcked(n, d) = IF n = Prov THEN SendPdu(n, e, INVITE) ELSE e
    BY <1>2 DEF LinkAcked
  <2> HIDE DEF e
  <2>4. CASE n = Prov
    <3>1. d.tx = 255
      BY <1>2, <2>4 DEF Good, Steady, Opening
    <3>2. SendPdu(n, e, INVITE) = f
      BY <2>1 DEF SendPdu, MaySend, LINK_OPENED, INVITE, PUBLIC_KEY, INPUT_COMPLETE, CONFIRMATION,
             RANDOM, FAILED, DATA
    <3>3. NextTn(n, e.tx, INVITE) = 0
      BY <2>1, <3>1 DEF NextTn, ProvNextTn
    <3>4. f.state = INVITE /\ f.timer = "delay_pdu" /\ f.tx = 0 /\ f.armed = TRUE /\ f.out = d.out
      BY <2>1, <3>3 DEF Arm, Device
    <3> HIDE DEF f
    <3>5. INVITE \in PDU /\ INVITE # LINK_OPENED /\ INVITE # LINK_OPENING
      BY DEF PDU, INVITE, LINK_OPENED, LINK_OPENING, FAILED
    <3>6. Steady(n, f) /\ Timed(n, f)
      BY <2>2, <2>4, <3>4, <3>5, NodeType DEF Steady, Timed
    <3> QED
      BY <2>3, <2>4, <3>2, <3>6 DEF Good
  <2>5. CASE n # Prov
    <3>1. n = Dev => d.tx >= 127
      BY <1>2 DEF Good, Steady, IDLE, LINK_OPENING, LINK_OPENED
    <3>2. Steady(n, e) /\ Timed(n, e)
      BY <2>1, <2>2, <2>5, <3>1 DEF Steady, Timed, LINK_OPENED, LINK_OPENING
    <3> QED
      BY <2>3, <2>5, <3>2 DEF Good
  <2> QED
    BY <2>4, <2>5
<1> QED
  BY <1>1, <1>2

\* meshx_pb_adv_recv_link_close
LEMMA LinkClosedGood ==
  ASSUME NEW n \in Node, NEW d \in Device, Good(n, d), NEW why \in Ending
  PROVE  Good(n, LinkClosed(d, why))
<1>1. AllSane(Peer(n), d.out)
  BY DEF Good, Steady
<1> QED
  BY <1>1, ResetGood DEF LinkClosed

\* The acknowledgement is scheduled for a PDU with a number of the peer.
LEMMA IfCompleteGood ==
  ASSUME NEW n \in Node, NEW d \in Device, Good(n, d), d.state >= LINK_OPENED, ValidPeerTn(n, d.rx)
  PROVE  Good(n, IfComplete(d))
<1> DEFINE c == [d EXCEPT !.rxpdu = NONE]
           e == Arm(d, "delay_ack")
<1>1. Good(n, c)
  <2>1. c \in Device
    BY DEF Device
  <2> QED
    BY <2>1, UpdateGood DEF Device
<1>2. /\ e.state = d.state /\ e.timer = "delay_ack" /\ e.tx = d.tx /\ e.rx = d.rx /\ e.armed = TRUE
      /\ e.out = d.out
  BY DEF Arm, Device
<1>3. IfComplete(d) \in {d, c, e}
  BY DEF IfComplete, Reassembled
<1> HIDE DEF c, e
<1>4. d.state # LINK_OPENING
  BY DEF LINK_OPENING, LINK_OPENED
<1>5. Steady(n, e)
  BY <1>2, <1>4 DEF Good, Steady
<1>6. Timed(n, e)
  BY <1>2, <1>4 DEF Timed
<1> QED
  BY <1>1, <1>3, <1>5, <1>6 DEF Good

\* An acknowledgement repeated for a number of the peer.
LEMMA ReAckGood ==
  ASSUME NEW n \in Node, NEW d \in Device, Good(n, d), ValidPeerTn(n, d.acked)
  PROVE  Good(n, Emit(d, <<TransAckPkt(d.link, d.acked)>>))
<1> DEFINE p == TransAckPkt(d.link, d.acked)
<1>1. p \in Packet
  BY PacketType DEF Device
<1>2. Sane(Peer(n), p)
  BY NodeType DEF Sane, TransAckPkt, ValidPeerTn, Peer, Node, Prov, Dev
<1> HIDE DEF p
<1>3. <<p>> \in Seq(Packet) /\ AllSane(Peer(n), <<p>>)
  BY <1>1, <1>2, NodeType, SaneAlone
<1>4. Good(n, Emit(d, <<p>>))
  BY <1>3, EmitGood
<1> QED
  BY <1>4 DEF p

\* meshx_pb_adv_recv_trans_start
LEMMA TransStartGood ==
  ASSUME NEW n \in Node, NEW d \in Device, Good(n, d), NEW p, p.tn \in Byte, p.pdu \in PDU,
         ValidPeerTn(n, p.tn)
  PROVE  Good(n, TransStart(d, p))
<1> DEFINE s == [d EXCEPT !.rxpdu = p.pdu, !.rx = p.tn, !.got = {<<0, p.pdu>>}]
<1>1. CASE d.state < LINK_OPENED \/ (d.acked # p.tn /\ d.rxpdu # NONE)
  BY <1>1 DEF TransStart
<1>2. CASE ~(d.state < LINK_OPENED \/ (d.acked # p.tn /\ d.rxpdu # NONE)) /\ d.acked = p.tn
  BY <1>2, ReAckGood DEF TransStart
<1>3. CASE ~(d.state < LINK_OPENED \/ (d.acked # p.tn /\ d.rxpdu # NONE)) /\ d.acked # p.tn
  <2>1. s \in Device
    <3>1. {<<0, p.pdu>>} \in SUBSET ((0 .. 2) \X PDU)
      OBVIOUS
    <3> QED
      BY <3>1 DEF Device
  <2>2. /\ s.state = d.state /\ s.timer = d.timer /\ s.tx = d.tx /\ s.rx = p.tn
        /\ s.armed = d.armed /\ s.out = d.out
    BY DEF Device
  <2>3. TransStart(d, p) = IfComplete(s)
    BY <1>3 DEF TransStart
  <2> HIDE DEF s
  <2>4. Good(n, s)
    BY <2>2 DEF Good, Steady, Timed, Opening
  <2>5. s.state >= LINK_OPENED
    BY <1>3, <2>2 DEF Device, State, LINK_OPENED
  <2> QED
    BY <2>1, <2>2, <2>3, <2>4, <2>5, IfCompleteGood
<1> QED
  BY <1>1, <1>2, <1>3

\* meshx_pb_adv_recv_trans_continue
LEMMA TransContinueGood ==
  ASSUME NEW n \in Node, NEW d \in Device, Good(n, d), NEW p, p.seg \in 0 .. 2, p.pdu \in PDU,
         ValidPeerTn(n, p.tn)
  PROVE  Good(n, TransContinue(d, p))
<1> DEFINE s == [d EXCEPT !.got = @ \cup {<<p.seg, p.pdu>>}]
<1>1. CASE d.state < LINK_OPENED \/ (d.acked # p.tn /\ ~Fits(d, p))
  BY <1>1 DEF TransContinue
<1>2. CASE ~(d.state < LINK_OPENED \/ (d.acked # p.tn /\ ~Fits(d, p))) /\ d.acked = p.tn
  BY <1>2, ReAckGood DEF TransContinue
<1>3. CASE ~(d.state < LINK_OPENED \/ (d.acked # p.tn /\ ~Fits(d, p))) /\ d.acked # p.tn
  <2>1. s \in Device
    <3>1. d.got \cup {<<p.seg, p.pdu>>} \in SUBSET ((0 .. 2) \X PDU)
      BY DEF Device
    <3> QED
      BY <3>1 DEF Device
  <2>2. /\ s.state = d.state /\ s.timer = d.timer /\ s.tx = d.tx /\ s.rx = d.rx
        /\ s.armed = d.armed /\ s.out = d.out
    BY DEF Device
  <2>3. TransContinue(d, p) = IfComplete(s)
    BY <1>3 DEF TransContinue
  <2>4. d.rx = p.tn
    BY <1>3 DEF Fits
  <2> HIDE DEF s
  <2>5. Good(n, s)
    BY <2>1, <2>2, UpdateGood
  <2>6. s.state >= LINK_OPENED
    BY <1>3, <2>2 DEF Device, State, LINK_OPENED
  <2> QED
    BY <2>1, <2>2, <2>3, <2>4, <2>5, <2>6, IfCompleteGood
<1> QED
  BY <1>1, <1>2, <1>3

\* meshx_pb_adv_recv_trans_ack: no link that is being opened is acknowledged.
LEMMA TransAckedGood ==
  ASSUME NEW n \in Node, NEW d \in Device, Good(n, d), NEW tn, n = Prov => d.tx # 127 /\ tn # 255
  PROVE  Good(n, TransAcked(n, d, tn))
<1> DEFINE s == [d EXCEPT !.retry = 0]
           e == Arm(s, "monitor")
<1>1. CASE d.state = IDLE \/ d.tx # tn
  BY <1>1 DEF TransAcked
<1>2. CASE ~(d.state = IDLE \/ d.tx # tn)
  <2>1. s \in Device /\ s.state = d.state /\ s.tx = d.tx
    BY DEF Device
  <2>2. Good(n, s)
    BY <2>1, UpdateGood, ZenonT(30) DEF Device
  <2>3. TransAcked(n, d, tn) =
          CASE e.state = FAILED -> LinkClose(e, FAIL)
            [] e.state = COMPLETE -> LinkClose(e, SUCCESS)
            [] e.state = START /\ n = Prov -> SendPdu(n, e, PUBLIC_KEY)
            [] OTHER -> e
    BY <1>2 DEF TransAcked
  <2> HIDE DEF s
  <2>4. ~(n = Prov /\ s.state = LINK_OPENING)
    BY <1>2, <2>1 DEF Good, Steady, Opening
  <2>5. Good(n, e) /\ e \in Device
    BY <2>1, <2>2, <2>4, MonitorGood
  <2>6. e.tx = d.tx
    BY <2>1 DEF Arm, Device
  <2> HIDE DEF e
  <2>7. FAILED # COMPLETE /\ FAILED # START /\ COMPLETE # START /\ FAILED > LINK_OPENING
        /\ COMPLETE > LINK_OPENING /\ PUBLIC_KEY \in PDU \ {INVITE}
    BY DEF FAILED, COMPLETE, START, PUBLIC_KEY, PDU, INVITE, LINK_OPENING
  <2>8. CASE e.state = FAILED
    BY <2>3, <2>5, <2>7, <2>8, ReasonType, LinkCloseGood DEF Good
  <2>9. CASE e.state = COMPLETE
    BY <2>3, <2>5, <2>7, <2>9, ReasonType, LinkCloseGood DEF Good
  <2>10. CASE e.state = START /\ n = Prov
    BY <2>3, <2>5, <2>6, <2>7, <2>10, SendPduGood
  <2>11. CASE e.state # FAILED /\ e.state # COMPLETE /\ ~(e.state = START /\ n = Prov)
    BY <2>3, <2>5, <2>11
  <2> QED
    BY <2>8, <2>9, <2>10, <2>11
<1> QED
  BY <1>1, <1>2

-----------------------------------------------------------------------------
(* Every step of the system. *)

\* No node is at fault, and no packet on its way is.
SInv == \A n \in Node : Good(n, dev[n]) /\ AllSane(n, q[n])

\* Packets of other links carry no numbers that a session would take for its own.
Foreign == \A p \in Overheard, n \in Node : Sane(n, p)

\* What a queue holds stays sane when packets are appended, and its head is.
LEMMA SaneQueue ==
  ASSUME NEW n \in Node, NEW s \in Seq(Message), AllSane(n, s)
  PROVE  /\ \A pkts \in Seq(Packet) : AllSane(n, pkts) => AllSane(n, Enqueue(s, pkts))
         /\ \A a \in Addrs : AllSane(n, Append(s, TimeoutMsg(a)))
         /\ s # << >> => Sane(n, Head(s)) /\ AllSane(n, Tail(s))
<1>1. ASSUME NEW pkts \in Seq(Packet), AllSane(n, pkts) PROVE AllSane(n, Enqueue(s, pkts))
  <2>1. Seq(Packet) \subseteq Seq(Message)
    BY DEF Message
  <2> QED
    BY <1>1, <2>1, SaneTogether DEF Enqueue
<1>2. ASSUME NEW a \in Addrs PROVE AllSane(n, Append(s, TimeoutMsg(a)))
  <2> DEFINE p == TimeoutMsg(a)
  <2>1. Sane(n, p)
    BY DEF Sane, TimeoutMsg
  <2> HIDE DEF p
  <2>2. AllSane(n, Append(s, p))
    BY <2>1 DEF AllSane
  <2> QED
    BY <2>2 DEF p
<1>3. s # << >> => Sane(n, Head(s)) /\ AllSane(n, Tail(s))
  BY DEF AllSane
<1> QED
  BY <1>1, <1>2, <1>3

\* A handler that leaves the object good.
LEMMA GoodStep ==
  ASSUME TypeOK, SInv, NEW n \in Node, NEW d, q[n] # << >>, Step(n, d), Kept(dev[n], d), Good(n, d)
  PROVE  SInv'
<1> DEFINE e == [d EXCEPT !.out = << >>]
<1>1. /\ dev \in [Node -> Device] /\ q \in [Node -> Seq(Message)]
      /\ dev' = [dev EXCEPT ![n] = e]
      /\ q' = [q EXCEPT ![n] = Tail(@), ![Peer(n)] = Enqueue(@, d.out)]
  BY DEF TypeOK, Step
<1>2. d \in Device /\ d.out \in Seq(Packet)
  <2>1. d \in Device
    BY DEF Kept
  <2> QED
    BY <2>1 DEF Device
<1>3. /\ e.state = d.state /\ e.timer = d.timer /\ e.tx = d.tx /\ e.rx = d.rx /\ e.armed = d.armed
      /\ e.out = << >>
  BY <1>2 DEF Device
<1> HIDE DEF e
<1>4. AllSane(Peer(n), << >>)
  BY DEF AllSane
<1>5. Good(n, e)
  BY <1>3, <1>4 DEF Good, Steady, Timed, Opening
<1>6. AllSane(n, q[n]) /\ AllSane(Peer(n), q[Peer(n)]) /\ AllSane(Peer(n), d.out)
  BY NodeType DEF SInv, Good, Steady
<1>7. q'[n] = Tail(q[n]) /\ q'[Peer(n)] = Enqueue(q[Peer(n)], d.out)
  BY <1>1, NodeType
<1>8. AllSane(n, q'[n])
  BY <1>1, <1>6, <1>7, SaneQueue
<1>9. AllSane(Peer(n), q'[Peer(n)])
  BY <1>1, <1>2, <1>6, <1>7, NodeType, SaneQueue
<1>10. \A m \in Node : Good(m, dev'[m])
  BY <1>1, <1>5 DEF SInv
<1> QED
  BY <1>8, <1>9, <1>10, NodeType DEF SInv

\* Handling one message keeps every object good and every packet sane, while
\* the provisioner has numbers left.
LEMMA HandleGood ==
  ASSUME TypeOK, SInv, NumbersLast, NEW n \in Node, Handle(n)
  PROVE  SInv'
<1> DEFINE d == dev[n]
           p == Head(q[n])
<1>1. q[n] # << >>
  BY DEF Handle, RecvLinkOpen, RecvLinkAck, RecvLinkClose, RecvTransStart, RecvTransContinue,
         RecvTransAck, HandleDelayAck, HandleDelayPdu, HandleRetry, HandleLinkLoss,
         HandleStaleObject, TimeoutOf, Is
<1>2. d \in Device /\ p \in Message /\ Good(n, d) /\ (n = Prov => d.tx # 127)
  BY <1>1, HeadType DEF SInv, NumbersLast
<1>3. Sane(n, p)
  BY <1>1, SaneQueue DEF SInv, TypeOK
<1>4. CASE RecvLinkOpen(n)
  <2>1. p.kind = "open" /\ p.link \in Link
    BY <1>2, <1>4, MessageFields DEF RecvLinkOpen, Is
  <2>2. \A sent \in SendResults : sent \in BOOLEAN /\ (~sent => SendMayFail)
    BY DEF SendResults
  <2>3. CASE p.uuid = n
    <3>1. PICK a \in Addrs, sent \in SendResults : Step(n, LinkOpened(d, p.link, a, sent))
      BY <1>4, <2>3 DEF RecvLinkOpen
    <3>2. Kept(d, LinkOpened(d, p.link, a, sent))
      BY <1>2, <2>1, <2>2, LinkOpenedEvolves, EvolvesKept
    <3>3. n = Dev
      BY <1>2, <2>1, <2>3 DEF Message, Packet, Uuid, Node, Prov, Dev
    <3>4. Good(n, LinkOpened(d, p.link, a, sent))
      BY <1>2, <2>1, <2>2, <3>3, LinkOpenedGood
    <3> QED
      BY <1>1, <3>1, <3>2, <3>4, GoodStep
  <2>4. CASE p.uuid # n
    <3>1. Kept(d, d)
      BY <1>2 DEF Kept
    <3> QED
      BY <1>1, <1>2, <1>4, <2>4, <3>1, GoodStep DEF RecvLinkOpen
  <2> QED
    BY <2>3, <2>4
<1>5. CASE RecvLinkAck(n)
  <2>1. Kept(d, LinkAcked(n, d)) /\ Good(n, LinkAcked(n, d))
    BY <1>2, LinkAckedEvolves, LinkAckedGood, EvolvesKept
  <2> QED
    BY <1>1, <1>5, <2>1, GoodStep DEF RecvLinkAck
<1>6. CASE RecvLinkClose(n)
  <2>1. p.kind = "close" /\ p.reason \in WireReasons /\ Step(n, LinkClosed(d, p.reason))
    BY <1>2, <1>6, MessageFields DEF RecvLinkClose, Is
  <2>2. p.reason \in Ending
    BY <2>1, ReasonType
  <2>3. Kept(d, LinkClosed(d, p.reason)) /\ Good(n, LinkClosed(d, p.reason))
    BY <1>2, <2>1, <2>2, LinkClosedEvolves, LinkClosedGood
  <2> QED
    BY <1>1, <2>1, <2>3, GoodStep
<1>7. CASE RecvTransStart(n)
  <2>1. p.kind = "seg" /\ p.tn \in Byte /\ p.pdu \in PDU /\ Step(n, TransStart(d, p))
    BY <1>2, <1>7, MessageFields DEF RecvTransStart, Is
  <2>2. ValidPeerTn(n, p.tn)
    BY <1>3, <2>1 DEF Sane
  <2>3. Kept(d, TransStart(d, p)) /\ Good(n, TransStart(d, p))
    BY <1>2, <2>1, <2>2, TransStartEvolves, TransStartGood
  <2> QED
    BY <1>1, <2>1, <2>3, GoodStep
<1>8. CASE RecvTransContinue(n)
  <2>1. p.kind = "seg" /\ p.seg \in 0 .. 2 /\ p.pdu \in PDU /\ Step(n, TransContinue(d, p))
    BY <1>2, <1>8, MessageFields DEF RecvTransContinue, Is
  <2>2. ValidPeerTn(n, p.tn)
    BY <1>3, <2>1 DEF Sane
  <2>3. Kept(d, TransContinue(d, p)) /\ Good(n, TransContinue(d, p))
    BY <1>2, <2>1, <2>2, TransContinueEvolves, TransContinueGood, EvolvesKept
  <2> QED
    BY <1>1, <2>1, <2>3, GoodStep
<1>9. CASE RecvTransAck(n)
  <2>1. p.kind = "trans_ack" /\ Step(n, TransAcked(n, d, p.tn))
    BY <1>9 DEF RecvTransAck, Is
  <2>2. n = Prov => p.tn # 255
    BY <1>3, <2>1 DEF Sane
  <2>3. Kept(d, TransAcked(n, d, p.tn)) /\ Good(n, TransAcked(n, d, p.tn))
    BY <1>2, <2>2, TransAckedEvolves, TransAckedGood, EvolvesKept
  <2> QED
    BY <1>1, <2>1, <2>3, GoodStep
<1>10. CASE HandleDelayAck(n)
  <2>1. PICK acked \in SendResults, valid \in Verdicts(d.rxpdu) :
          Step(n, AckAndProcess(n, d, acked, valid))
    BY <1>10 DEF HandleDelayAck
  <2>2. acked \in BOOLEAN /\ valid \in BOOLEAN
    BY <2>1 DEF SendResults, Verdicts
  <2>3. d.timer = "delay_ack" /\ d.state # IDLE
    BY <1>10 DEF HandleDelayAck, TimeoutOf
  <2>4. Kept(d, AckAndProcess(n, d, acked, valid)) /\ Good(n, AckAndProcess(n, d, acked, valid))
    BY <1>2, <2>2, <2>3, AckAndProcessEvolves, AckAndProcessGood, EvolvesKept
  <2> QED
    BY <1>1, <2>1, <2>4, GoodStep
<1>11. CASE HandleDelayPdu(n)
  <2>1. d.timer = "delay_pdu" /\ d.state \in PDU /\ Step(n, FirstSend(d))
    BY <1>11 DEF HandleDelayPdu, TimeoutOf
  <2>2. Kept(d, FirstSend(d)) /\ Good(n, FirstSend(d))
    BY <1>2, <2>1, FirstSendEvolves, FirstSendGood, EvolvesKept
  <2> QED
    BY <1>1, <2>1, <2>2, GoodStep
<1>12. CASE HandleRetry(n)
  <2>1. d.timer = "retry" /\ Step(n, Retry(d))
    BY <1>12 DEF HandleRetry, TimeoutOf
  <2>2. Kept(d, Retry(d)) /\ Good(n, Retry(d))
    BY <1>2, <2>1, RetryEvolves, RetryGood, EvolvesKept
  <2> QED
    BY <1>1, <2>1, <2>2, GoodStep
<1>13. CASE HandleLinkLoss(n)
  <2>1. d.timer = "monitor" /\ d.state # IDLE /\ Step(n, LinkLoss(d))
    BY <1>13 DEF HandleLinkLoss, TimeoutOf
  <2>2. Kept(d, LinkLoss(d)) /\ Good(n, LinkLoss(d))
    BY <1>2, <2>1, LinkLossEvolves, LinkLossGood, EvolvesKept
  <2> QED
    BY <1>1, <2>1, <2>2, GoodStep
<1>14. CASE HandleStaleObject(n)
  <2>1. Kept(d, d)
    BY <1>2 DEF Kept
  <2> QED
    BY <1>1, <1>2, <1>14, <2>1, GoodStep DEF HandleStaleObject
<1> QED
  BY <1>4, <1>5, <1>6, <1>7, <1>8, <1>9, <1>10, <1>11, <1>12, <1>13, <1>14 DEF Handle

\* So does every other step, if the packets overheard are foreign.
LEMMA NextGood ==
  ASSUME TypeOK, SInv, NumbersLast, Foreign, [Next]_vars
  PROVE  SInv'
<1>1. dev \in [Node -> Device] /\ q \in [Node -> Seq(Message)] /\ session \in Nat
  BY DEF TypeOK
<1>2. \A n \in Node : Good(n, dev[n]) /\ AllSane(n, q[n])
  BY DEF SInv
<1>3. CASE \E n \in Node : Handle(n)
  BY <1>3, HandleGood
<1>4. CASE Connect
  <2>1. PICK a \in Addrs :
          dev' = [dev EXCEPT ![Prov] =
                    Arm([Created(dev[Prov], a) EXCEPT !.link = session + 1, !.tx = 255,
                           !.acked = 0, !.state = LINK_OPENING], "retry")]
    BY <1>4 DEF Connect
  <2> DEFINE c == Created(dev[Prov], a)
             e == Arm([c EXCEPT !.link = session + 1, !.tx = 255, !.acked = 0,
                                !.state = LINK_OPENING], "retry")
             pkts == <<LinkOpenPkt(session + 1, Dev)>>
  <2>2. q' = [q EXCEPT ![Dev] = Enqueue(@, pkts)]
    BY <1>4 DEF Connect
  <2>3. Prov \in Node /\ Dev \in Node /\ Prov # Dev
    BY DEF Node, Prov, Dev
  <2>4. c.out = dev[Prov].out /\ c \in Device
    <3>1. dev[Prov] \in Device
      BY <1>1, <2>3
    <3>2. c \in Device
      BY <3>1, ResetEvolves DEF Evolves
    <3> QED
      BY <3>1, <3>2 DEF Created, Zeroed, Device
  <2> HIDE DEF c
  <2>5. /\ e.state = LINK_OPENING /\ e.timer = "retry" /\ e.tx = 255 /\ e.armed = TRUE
        /\ e.out = dev[Prov].out
    BY <2>4 DEF Arm, Device
  <2>6. dev' = [dev EXCEPT ![Prov] = e]
    BY <2>1 DEF c
  <2> HIDE DEF e
  <2>7. AllSane(Peer(Prov), e.out)
    BY <1>2, <2>3, <2>5 DEF Good, Steady
  <2>8. LINK_OPENING \notin PDU /\ LINK_OPENING # LINK_OPENED /\ LINK_OPENING # IDLE
        /\ ~(LINK_OPENING >= INVITE)
    BY DEF PDU, LINK_OPENING, LINK_OPENED, INVITE, FAILED, IDLE
  <2>9. Good(Prov, e)
    BY <2>3, <2>5, <2>7, <2>8 DEF Good, Steady, Timed, Opening
  <2>10. pkts \in Seq(Packet) /\ AllSane(Dev, pkts)
    <3>1. LinkOpenPkt(session + 1, Dev) \in Packet
      BY <1>1, PacketType DEF Link
    <3>2. Sane(Dev, LinkOpenPkt(session + 1, Dev))
      BY <2>3, LinkPacketsSane
    <3> QED
      BY <2>3, <3>1, <3>2, SaneAlone
  <2> HIDE DEF pkts
  <2>11. AllSane(Dev, Enqueue(q[Dev], pkts))
    BY <1>1, <1>2, <2>3, <2>10, SaneQueue
  <2>12. \A n \in Node : Good(n, dev'[n])
    BY <1>1, <1>2, <2>6, <2>9
  <2>13. \A n \in Node : AllSane(n, q'[n])
    BY <1>1, <1>2, <2>2, <2>11
  <2> QED
    BY <2>12, <2>13 DEF SInv
<1>5. CASE \E n \in Node : Fire(n)
  <2>1. PICK n \in Node : q' = [q EXCEPT ![n] = Append(@, TimeoutMsg(dev[n].addr))] /\ dev' = dev
    BY <1>5 DEF Fire
  <2>2. dev[n].addr \in Addrs
    BY <1>1 DEF Device
  <2>3. AllSane(n, Append(q[n], TimeoutMsg(dev[n].addr)))
    BY <1>1, <1>2, <2>2, SaneQueue
  <2> QED
    BY <1>1, <1>2, <2>1, <2>3 DEF SInv
<1>6. CASE \E n \in Node : Lose(n)
  <2>1. PICK n \in Node : q[n] # << >> /\ q' = [q EXCEPT ![n] = Tail(@)] /\ dev' = dev
    BY <1>6 DEF Lose
  <2>2. AllSane(n, Tail(q[n]))
    BY <1>1, <1>2, <2>1, SaneQueue
  <2> QED
    BY <1>1, <1>2, <2>1, <2>2 DEF SInv
<1>7. CASE \E n \in Node : Overhear(n)
  <2>1. PICK n \in Node, p \in Overheard : q' = [q EXCEPT ![n] = Enqueue(@, <<p>>)] /\ dev' = dev
    BY <1>7 DEF Overhear
  <2>2. p \in Packet /\ Sane(n, p)
    BY OverheardAssumption DEF Foreign
  <2>3. AllSane(n, Enqueue(q[n], <<p>>))
    BY <1>1, <1>2, <2>2, SaneAlone, SaneQueue
  <2> QED
    BY <1>1, <1>2, <2>1, <2>3 DEF SInv
<1>8. CASE UNCHANGED vars
  BY <1>2, <1>8 DEF vars, SInv
<1> QED
  BY <1>3, <1>4, <1>5, <1>6, <1>7, <1>8 DEF Next

\* It holds when there is no session.
LEMMA InitGood == Init => SInv
<1> SUFFICES ASSUME Init PROVE SInv
  OBVIOUS
<1>1. \A n \in Node : /\ dev[n].state = IDLE /\ dev[n].timer = "delay_ack" /\ dev[n].out = << >>
                      /\ q[n] = << >>
  BY DEF Init
<1>2. IDLE # LINK_OPENED /\ IDLE # LINK_OPENING /\ ~(IDLE >= INVITE)
  BY DEF IDLE, LINK_OPENED, LINK_OPENING, INVITE
<1> QED
  BY <1>1, <1>2 DEF SInv, Good, Steady, Timed, AllSane

-----------------------------------------------------------------------------
(***************************************************************************)
(* TransNumUnambiguous.  The numbers an object has used are not above its  *)
(* present one, which belongs to the PDU that is being sent again: the     *)
(* state does not move on while the retry timer runs, and every send takes *)
(* the next number, as long as the half of its node lasts.                 *)
(***************************************************************************)
Numbered(d) ==
  /\ d.state # IDLE => \A s \in d.sent : s[1] <= d.tx
  /\ d.state # IDLE /\ d.timer = "delay_pdu" => \A s \in d.sent : s[1] < d.tx
  /\ d.state \in PDU /\ d.timer = "retry" => \A s \in d.sent : s[1] = d.tx => s[2] = d.state
  /\ d.state \in {LINK_OPENING, LINK_OPENED} => d.sent = {}
  /\ \A s, t \in d.sent : s[1] = t[1] => s[2] = t[2]

\* The device's numbers last too: it is not at the end of its half.
DevNumbersLast == dev[Dev].tx # 255

Room(n, d) == (n = Prov => d.tx # 127) /\ (n = Dev => d.tx # 255)

\* A fresh object.
LEMMA NumberedFresh ==
  ASSUME NEW d \in Device, d.sent = {}
  PROVE  Numbered(d)
BY DEF Numbered

\* An object that keeps its state and number, and sends no PDU again that it
\* did not before.
LEMMA NumberedStays ==
  ASSUME NEW d \in Device, Numbered(d), NEW e \in Device,
         e.state = d.state, e.tx = d.tx, e.sent = d.sent,
         e.timer \in {d.timer, "monitor", "delay_ack"}
  PROVE  Numbered(e)
BY DEF Numbered

\* The numbers in an object are numbers.
LEMMA SentType ==
  ASSUME NEW d \in Device
  PROVE  d.tx \in Nat /\ \A s \in d.sent : s[1] \in Nat
<1>1. d.tx \in Byte /\ d.sent \subseteq Byte \X PDU
  BY DEF Device
<1> QED
  BY <1>1 DEF Byte

\* Counting a retry changes no other field.
LEMMA CountFields ==
  ASSUME NEW d \in Device, NEW e, e = [d EXCEPT !.retry = @ + 1]
  PROVE  e \in Device /\ e.state = d.state /\ e.tx = d.tx /\ e.sent = d.sent /\ e.timer = d.timer
<1>1. e \in Device
  BY SMTT(30) DEF Device
<1> QED
  BY <1>1 DEF Device

\* Scheduling a PDU takes the next number.
LEMMA SendPduNumbered ==
  ASSUME NEW n \in Node, NEW d \in Device, Good(n, d), Numbered(d), Room(n, d),
         NEW pdu \in PDU \ {INVITE}
  PROVE  Numbered(SendPdu(n, d, pdu))
<1> DEFINE tn == NextTn(n, d.tx, pdu)
           e == Arm([d EXCEPT !.state = pdu, !.tx = tn], "delay_pdu")
<1>1. CASE ~MaySend(d.state, pdu)
  BY <1>1 DEF SendPdu
<1>2. CASE MaySend(d.state, pdu)
  <2>1. d.state >= INVITE /\ d.state # IDLE
    <3>1. d.state \in State
      BY DEF Device
    <3> QED
      BY <1>2, <3>1 DEF MaySend, PDU, State, IDLE, INVITE, CAPABILITES, START, PUBLIC_KEY,
             INPUT_COMPLETE, CONFIRMATION, RANDOM, DATA, COMPLETE, FAILED
  <2>2. d.tx \in Byte /\ (n = Prov => d.tx < 127) /\ (n = Dev => d.tx >= 127 /\ d.tx < 255)
    <3>1. d.tx \in Byte
      BY DEF Device
    <3> QED
      BY <2>1, <3>1 DEF Good, Steady, Byte, Room
  <2>3. tn = d.tx + 1
    BY <2>2 DEF NextTn, ProvNextTn, DevNextTn, Byte, Node
  <2> HIDE DEF tn
  <2>4. e.state = pdu /\ e.timer = "delay_pdu" /\ e.tx = tn /\ e.sent = d.sent
    BY DEF Arm, Device
  <2>5. SendPdu(n, d, pdu) = e
    BY <1>2 DEF SendPdu, tn
  <2> HIDE DEF e
  <2>6. pdu # LINK_OPENING /\ pdu # LINK_OPENED
    BY DEF PDU, LINK_OPENING, LINK_OPENED, INVITE, FAILED
  <2>7. \A s \in d.sent : s[1] \in Nat /\ s[1] <= d.tx
    BY <2>1, SentType DEF Numbered
  <2>8. \A s \in e.sent : s[1] <= e.tx /\ s[1] < e.tx
    BY <2>2, <2>3, <2>4, <2>7 DEF Byte
  <2>9. Numbered(e)
    BY <2>4, <2>6, <2>8 DEF Numbered
  <2> QED
    BY <2>5, <2>9
<1> QED
  BY <1>1, <1>2

\* Closing the link sends no PDU.
LEMMA LinkCloseNumbered ==
  ASSUME NEW n \in Node, NEW d \in Device, Numbered(d), NEW why \in Reason
  PROVE  Numbered(LinkClose(d, why))
<1> DEFINE c == [d EXCEPT !.state = LINK_CLOSING, !.reason = why, !.retry = 0]
           p == LinkClosePkt(d.link, WireReason(why))
           e == Arm(Emit(c, <<p>>), "retry")
<1>1. CASE d.state <= LINK_OPENING
  BY <1>1 DEF LinkClose
<1>2. CASE ~(d.state <= LINK_OPENING)
  <2>1. LinkClose(d, why) = e
    BY <1>2 DEF LinkClose
  <2>2. e.state = LINK_CLOSING /\ e.timer = "retry" /\ e.tx = d.tx /\ e.sent = d.sent
    BY DEF Arm, Emit, Device
  <2> HIDE DEF e
  <2>3. d.state # IDLE
    BY <1>2 DEF IDLE, LINK_OPENING
  <2>4. LINK_CLOSING \notin PDU /\ LINK_CLOSING # LINK_OPENING /\ LINK_CLOSING # LINK_OPENED
    BY DEF LINK_CLOSING, PDU, LINK_OPENING, LINK_OPENED, INVITE, FAILED
  <2>5. Numbered(e)
    BY <2>2, <2>3, <2>4 DEF Numbered
  <2> QED
    BY <2>1, <2>5
<1> QED
  BY <1>1, <1>2

\* Deleting the object keeps the log of what it sent.
LEMMA DeletedNumbered ==
  ASSUME NEW d \in Device, Numbered(d), NEW why
  PROVE  Numbered(Deleted(d, why))
<1> DEFINE e == Deleted(d, why)
<1>1. e.state = IDLE /\ e.sent = d.sent
  BY DEF Deleted, Zeroed, Device
<1> HIDE DEF e
<1>2. Numbered(e)
  BY <1>1 DEF Numbered, IDLE, PDU, INVITE, FAILED, LINK_OPENING, LINK_OPENED
<1> QED
  BY <1>2 DEF e

\* Handing packets of the link layer to the bearer.
LEMMA EmitNumbered ==
  ASSUME NEW d \in Device, Numbered(d), NEW pkts
  PROVE  Numbered(Emit(d, pkts))
<1> DEFINE e == Emit(d, pkts)
<1>1. e.state = d.state /\ e.sent = d.sent /\ e.tx = d.tx /\ e.timer = d.timer
  BY DEF Emit, Device
<1> HIDE DEF e
<1>2. Numbered(e)
  BY <1>1 DEF Numbered
<1> QED
  BY <1>2 DEF e

\* A PDU goes out under the number that is its own.
LEMMA EmitPduNumbered ==
  ASSUME NEW d \in Device, Numbered(d), d.state \in PDU, d.timer \in {"delay_pdu", "retry"},
         NEW e \in Device, e.state = d.state, e.tx = d.tx, e.timer = "retry",
         e.sent = d.sent \cup {<<d.tx, d.state>>}
  PROVE  Numbered(e)
<1>1. d.state # IDLE /\ d.state # LINK_OPENING /\ d.state # LINK_OPENED /\ d.tx \in Nat
  BY SentType DEF PDU, IDLE, LINK_OPENING, LINK_OPENED, INVITE, FAILED
<1>2. \A s \in d.sent : s[1] \in Nat /\ s[1] <= d.tx /\ (s[1] = d.tx => s[2] = d.state)
  BY <1>1, SentType DEF Numbered
<1>3. \A s \in e.sent : s[1] <= e.tx /\ (s[1] = e.tx => s[2] = e.state)
  BY <1>1, <1>2
<1>4. \A s, t \in e.sent : s[1] = t[1] => s[2] = t[2]
  BY <1>2 DEF Numbered
<1> QED
  BY <1>1, <1>3, <1>4 DEF Numbered

\* meshx_pb_adv_handle_delay, PDU due.
LEMMA FirstSendNumbered ==
  ASSUME NEW n \in Node, NEW d \in Device, Numbered(d), d.state \in PDU, d.timer = "delay_pdu"
  PROVE  Numbered(FirstSend(d))
<1> DEFINE e == FirstSend(d)
<1>1. e \in Device
  BY FirstSendEvolves DEF Evolves
<1>2. /\ e.state = d.state /\ e.tx = d.tx /\ e.timer = "retry"
      /\ e.sent = d.sent \cup {<<d.tx, d.state>>}
  BY DEF FirstSend, Arm, EmitPdu, Emit, Device
<1> HIDE DEF e
<1>3. Numbered(e)
  BY <1>1, <1>2, EmitPduNumbered
<1> QED
  BY <1>3 DEF e

\* meshx_pb_adv_handle_retry
LEMMA RetryNumbered ==
  ASSUME NEW n \in Node, NEW d \in Device, Good(n, d), Numbered(d), d.timer = "retry"
  PROVE  Numbered(Retry(d))
<1>1. ASSUME NEW p \in Packet, NEW why
      PROVE  /\ Numbered(Deleted(Emit(d, <<p>>), why))
             /\ Numbered([Emit(d, <<p>>) EXCEPT !.retry = @ + 1])
  <2> DEFINE e == Emit(d, <<p>>)
             f == [e EXCEPT !.retry = @ + 1]
  <2>1. Numbered(e) /\ e \in Device
    <3>1. d.out \o <<p>> \in Seq(Packet)
      BY DEF Device
    <3> QED
      BY <3>1, EmitNumbered DEF Emit, Device
  <2> HIDE DEF e
  <2>2. f \in Device /\ f.state = e.state /\ f.tx = e.tx /\ f.sent = e.sent /\ f.timer = e.timer
    BY <2>1, CountFields
  <2> HIDE DEF f
  <2>3. Numbered(f) /\ Numbered(Deleted(e, why))
    BY <2>1, <2>2, NumberedStays, DeletedNumbered
  <2> QED
    BY <2>3 DEF e, f
<1>2. d.link \in Link /\ WireReason(d.reason) \in WireReasons
  BY ReasonType DEF Device
<1>3. Numbered(RetryOpen(d))
  <2>1. LinkOpenPkt(d.link, Dev) \in Packet
    BY <1>2, PacketType
  <2>2. RetryOpen(d) \in {Deleted(Emit(d, <<LinkOpenPkt(d.link, Dev)>>), OPEN_TIMEOUT),
                          [Emit(d, <<LinkOpenPkt(d.link, Dev)>>) EXCEPT !.retry = @ + 1]}
    BY DEF RetryOpen
  <2> QED
    BY <1>1, <2>1, <2>2
<1>4. Numbered(RetryClose(d))
  <2> DEFINE p == LinkClosePkt(d.link, WireReason(d.reason))
  <2>1. p \in Packet
    BY <1>2, PacketType
  <2>2. RetryClose(d) \in {Deleted(Emit(d, <<p>>), d.reason), [Emit(d, <<p>>) EXCEPT !.retry = @ + 1]}
    BY DEF RetryClose
  <2> HIDE DEF p
  <2> QED
    BY <1>1, <2>1, <2>2
<1>5. d.state \in INVITE .. COMPLETE => Numbered(RetryPdu(d))
  <2> SUFFICES ASSUME d.state \in INVITE .. COMPLETE PROVE Numbered(RetryPdu(d))
    OBVIOUS
  <2>1. d.state \in PDU
    BY DEF PDU, INVITE, COMPLETE, FAILED
  <2> DEFINE s == EmitPdu(d)
             e == [s EXCEPT !.retry = @ + 1]
  <2>2. /\ s \in Device /\ s.state = d.state /\ s.tx = d.tx /\ s.timer = "retry"
        /\ s.sent = d.sent \cup {<<d.tx, d.state>>}
    <3>1. s \in Device
      BY <2>1, EmitPduEvolves DEF Evolves
    <3> QED
      BY <3>1 DEF EmitPdu, Emit, Device
  <2> HIDE DEF s
  <2>3. /\ e \in Device /\ e.state = d.state /\ e.tx = d.tx /\ e.timer = "retry"
        /\ e.sent = d.sent \cup {<<d.tx, d.state>>}
    BY <2>2, CountFields
  <2>4. RetryPdu(d) \in {LinkClose(e, TIMEOUT), e}
    BY DEF RetryPdu, s
  <2> HIDE DEF e
  <2>5. Numbered(e)
    BY <2>1, <2>3, EmitPduNumbered
  <2>6. Numbered(LinkClose(e, TIMEOUT))
    BY <2>3, <2>5, ReasonType, LinkCloseNumbered
  <2> QED
    BY <2>4, <2>5, <2>6
<1>6. /\ LINK_OPENING # LINK_CLOSING
      /\ LINK_OPENING \notin INVITE .. COMPLETE /\ LINK_CLOSING \notin INVITE .. COMPLETE
  BY DEF LINK_OPENING, LINK_CLOSING, INVITE, COMPLETE
<1>7. CASE d.state = LINK_OPENING
  BY <1>3, <1>6, <1>7 DEF Retry
<1>8. CASE d.state = LINK_CLOSING
  BY <1>4, <1>6, <1>8 DEF Retry
<1>9. CASE d.state \in INVITE .. COMPLETE
  BY <1>5, <1>6, <1>9 DEF Retry
<1>10. CASE d.state \notin {LINK_OPENING, LINK_CLOSING} \cup (INVITE .. COMPLETE)
  BY <1>10 DEF Retry
<1> QED
  BY <1>7, <1>8, <1>9, <1>10

\* meshx_pb_adv_handle_link_loss
LEMMA LinkLossNumbered ==
  ASSUME NEW n \in Node, NEW d \in Device, Numbered(d)
  PROVE  Numbered(LinkLoss(d))
<1> DEFINE c == [d EXCEPT !.armed = FALSE]
<1>1. c \in Device /\ c.state = d.state /\ c.tx = d.tx /\ c.sent = d.sent /\ c.timer = d.timer
  BY DEF Device
<1>2. LinkLoss(d) = LinkClose(c, LINK_LOSS)
  BY DEF LinkLoss
<1> HIDE DEF c
<1>3. Numbered(c)
  BY <1>1, NumberedStays
<1> QED
  BY <1>1, <1>2, <1>3, ReasonType, LinkCloseNumbered

\* Processing a PDU: the state may move on, since no timer retransmits, and the
\* answer takes the next number.
LEMMA ProvPduProcessNumbered ==
  ASSUME NEW n \in Node, NEW d \in Device, Good(n, d), Numbered(d), Room(n, d),
         d.timer = "monitor", d.state # IDLE, n = Prov => d.state # LINK_OPENING,
         NEW pdu \in PDU \cup {NONE}, NEW valid \in BOOLEAN
  PROVE  Numbered(ProvPduProcess(n, d, pdu, valid))
<1> DEFINE e == Accept(d, pdu)
<1>1. CASE pdu = NONE \/ ~MayAccept(d.state, pdu) \/ ~valid
  <2>1. FAILED \in PDU \ {INVITE}
    BY DEF PDU, INVITE, FAILED
  <2> QED
    BY <1>1, <2>1, SendPduNumbered DEF ProvPduProcess
<1>2. CASE ~(pdu = NONE \/ ~MayAccept(d.state, pdu) \/ ~valid)
  <2>1. pdu \in PDU /\ pdu # IDLE /\ pdu # LINK_OPENING /\ pdu # LINK_OPENED
    BY <1>2 DEF PDU, IDLE, LINK_OPENING, LINK_OPENED, INVITE, FAILED
  <2>2. Good(n, e) /\ e \in Device
    BY <1>2, <2>1, AcceptGood DEF Room
  <2>3. e.state = pdu /\ e.timer = "monitor" /\ e.tx = d.tx /\ e.sent = d.sent
    BY DEF Accept, Device
  <2> HIDE DEF e
  <2>4. Numbered(e)
    BY <2>1, <2>3 DEF Numbered
  <2>5. Answer(n, pdu) # NONE => Answer(n, pdu) \in PDU \ {INVITE}
    BY AnswerType
  <2>6. Answer(n, pdu) # NONE => Numbered(SendPdu(n, e, Answer(n, pdu)))
    BY <2>2, <2>3, <2>4, <2>5, SendPduNumbered DEF Room
  <2> QED
    BY <1>2, <2>4, <2>6 DEF ProvPduProcess, e
<1> QED
  BY <1>1, <1>2

\* meshx_pb_adv_handle_delay, acknowledgement due.
LEMMA AckAndProcessNumbered ==
  ASSUME NEW n \in Node, NEW d \in Device, Good(n, d), Numbered(d), Room(n, d),
         d.timer = "delay_ack", d.state # IDLE, NEW acked \in BOOLEAN, NEW valid \in BOOLEAN
  PROVE  Numbered(AckAndProcess(n, d, acked, valid))
<1>1. PICK b \in Device : /\ b.state = d.state /\ b.tx = d.tx /\ b.timer = "monitor" /\ Good(n, b)
                          /\ b.sent = d.sent
                          /\ AckAndProcess(n, d, acked, valid) = ProvPduProcess(n, b, d.rxpdu, valid)
  BY Acknowledged
<1>2. ~(n = Prov /\ d.state = LINK_OPENING)
  BY DEF Good, Steady, Opening
<1>3. Numbered(b)
  BY <1>1, NumberedStays
<1>4. d.rxpdu \in PDU \cup {NONE}
  BY DEF Device
<1>5. Numbered(ProvPduProcess(n, b, d.rxpdu, valid))
  BY <1>1, <1>2, <1>3, <1>4, ProvPduProcessNumbered DEF Room
<1> QED
  BY <1>1, <1>5

\* meshx_pb_adv_recv_link_open: a link that is being opened has sent nothing.
LEMMA LinkOpenedNumbered ==
  ASSUME NEW n \in Node, NEW d \in Device, Numbered(d), NEW l \in Link, NEW a \in Addrs, NEW sent \in BOOLEAN
  PROVE  Numbered(LinkOpened(d, l, a, sent))
<1> DEFINE c == IF d.state = IDLE THEN Created(d, a) ELSE d
           p == LinkAckPkt(l)
           o == [c EXCEPT !.link = l, !.state = LINK_OPENING, !.tx = 127, !.acked = 255, !.rxpdu = NONE]
           g == LinkAck(o, sent)
<1>1. c \in Device /\ Numbered(c) /\ (c.state \in {IDLE, LINK_OPENING} => c.sent = {})
  <2>1. CASE d.state = IDLE
    <3>1. Created(d, a) \in Device
      BY ResetEvolves DEF Evolves
    <3>2. Created(d, a).sent = {}
      BY DEF Created, Zeroed, Device
    <3> QED
      BY <2>1, <3>1, <3>2, NumberedFresh
  <2>2. CASE d.state # IDLE
    BY <2>2 DEF Numbered
  <2> QED
    BY <2>1, <2>2
<1>2. LinkOpened(d, l, a, sent) =
        CASE c.state > LINK_OPENED -> c
          [] c.state = LINK_OPENED -> IF c.link = l THEN Emit(c, <<p>>) ELSE c
          [] OTHER -> g
  BY DEF LinkOpened
<1> HIDE DEF c
<1>3. c.state \in State
  BY <1>1 DEF Device
<1>4. Numbered(Emit(c, <<p>>))
  BY <1>1, EmitNumbered
<1>5. CASE c.state >= LINK_OPENED
  <2>1. LinkOpened(d, l, a, sent) \in {c, Emit(c, <<p>>)}
    BY <1>2, <1>3, <1>5 DEF State, LINK_OPENED
  <2> QED
    BY <1>1, <1>4, <2>1
<1>6. CASE c.state < LINK_OPENED
  <2>1. LinkOpened(d, l, a, sent) = g
    BY <1>2, <1>3, <1>6 DEF State, LINK_OPENED
  <2>2. c.sent = {}
    BY <1>1, <1>3, <1>6 DEF State, IDLE, LINK_OPENING, LINK_OPENED
  <2>3. o.sent = {} /\ o \in Device
    <3>1. ASSUME NEW x \in State, NEW t \in Byte, NEW u \in Byte
          PROVE  [c EXCEPT !.link = l, !.state = x, !.tx = t, !.acked = u, !.rxpdu = NONE] \in Device
      BY <1>1 DEF Device
    <3>2. 127 \in Byte /\ 255 \in Byte
      BY DEF Byte
    <3>3. o \in Device
      BY <3>1, <3>2, StateType
    <3> QED
      BY <1>1, <2>2, <3>3 DEF Device
  <2> HIDE DEF o
  <2>4. g \in Device
    BY <2>3, LinkAckEvolves DEF Evolves
  <2>5. g.sent = {}
    BY <2>3 DEF LinkAck, Arm, Emit, Device
  <2> HIDE DEF g
  <2> QED
    BY <2>1, <2>4, <2>5, NumberedFresh
<1> QED
  BY <1>3, <1>5, <1>6 DEF State, LINK_OPENED

\* meshx_pb_adv_recv_link_ack: neither has a link that is acknowledged.
LEMMA LinkAckedNumbered ==
  ASSUME NEW n \in Node, NEW d \in Device, Numbered(d)
  PROVE  Numbered(LinkAcked(n, d))
<1> DEFINE g == LinkAcked(n, d)
<1>1. CASE d.state \notin {LINK_OPENING, LINK_OPENED}
  BY <1>1 DEF LinkAcked
<1>2. CASE d.state \in {LINK_OPENING, LINK_OPENED}
  <2>1. d.sent = {}
    BY <1>2 DEF Numbered
  <2>2. g.sent = {}
    BY <1>2, <2>1 DEF LinkAcked, SendPdu, Arm, Device
  <2>3. g \in Device
    BY LinkAckedEvolves DEF Evolves
  <2> HIDE DEF g
  <2>4. Numbered(g)
    BY <2>2, <2>3, NumberedFresh
  <2> QED
    BY <2>4 DEF g
<1> QED
  BY <1>1, <1>2

\* The receipt of segments sends nothing.
LEMMA SegmentNumbered ==
  ASSUME NEW n \in Node, NEW d \in Device, Numbered(d), NEW p, p.tn \in Byte, p.pdu \in PDU, p.seg \in 0 .. 2
  PROVE  Numbered(TransStart(d, p)) /\ Numbered(TransContinue(d, p))
<1> DEFINE k == TransAckPkt(d.link, d.acked)
           s == [d EXCEPT !.rxpdu = p.pdu, !.rx = p.tn, !.got = {<<0, p.pdu>>}]
           t == [d EXCEPT !.got = @ \cup {<<p.seg, p.pdu>>}]
<1>1. /\ s.state = d.state /\ s.tx = d.tx /\ s.sent = d.sent /\ s.timer = d.timer /\ s \in Device
  <2>1. {<<0, p.pdu>>} \in SUBSET ((0 .. 2) \X PDU)
    OBVIOUS
  <2>2. s \in Device
    BY <2>1 DEF Device
  <2> QED
    BY <2>2 DEF Device
<1>2. /\ t.state = d.state /\ t.tx = d.tx /\ t.sent = d.sent /\ t.timer = d.timer /\ t \in Device
  <2>1. d.got \cup {<<p.seg, p.pdu>>} \in SUBSET ((0 .. 2) \X PDU)
    BY DEF Device
  <2>2. t \in Device
    BY <2>1 DEF Device
  <2> QED
    BY <2>2 DEF Device
<1>3. /\ TransStart(d, p) \in {d, Emit(d, <<k>>), IfComplete(s)}
      /\ TransContinue(d, p) \in {d, Emit(d, <<k>>), IfComplete(t)}
  BY DEF TransStart, TransContinue
<1> HIDE DEF s, t, k
<1>4. ASSUME NEW e \in Device, Numbered(e) PROVE Numbered(IfComplete(e))
  <2> DEFINE c == [e EXCEPT !.rxpdu = NONE]
             a == Arm(e, "delay_ack")
  <2>1. /\ c \in Device /\ c.state = e.state /\ c.tx = e.tx /\ c.sent = e.sent /\ c.timer = e.timer
    BY DEF Device
  <2>2. /\ a \in Device /\ a.state = e.state /\ a.tx = e.tx /\ a.sent = e.sent /\ a.timer = "delay_ack"
    BY DEF Arm, Device, Timer
  <2>3. IfComplete(e) \in {e, c, a}
    BY DEF IfComplete, Reassembled
  <2> HIDE DEF c, a
  <2>4. Numbered(c) /\ Numbered(a)
    BY <1>4, <2>1, <2>2, NumberedStays
  <2> QED
    BY <1>4, <2>3, <2>4
<1>5. Numbered(s) /\ Numbered(t) /\ Numbered(Emit(d, <<k>>))
  BY <1>1, <1>2, NumberedStays, EmitNumbered
<1>6. Numbered(IfComplete(s)) /\ Numbered(IfComplete(t))
  BY <1>1, <1>2, <1>4, <1>5
<1> QED
  BY <1>3, <1>5, <1>6

\* meshx_pb_adv_recv_trans_ack
LEMMA TransAckedNumbered ==
  ASSUME NEW n \in Node, NEW d \in Device, Good(n, d), Numbered(d), Room(n, d), NEW tn, n = Prov => tn # 255
  PROVE  Numbered(TransAcked(n, d, tn))
<1> DEFINE s == [d EXCEPT !.retry = 0]
           e == Arm(s, "monitor")
<1>1. CASE d.state = IDLE \/ d.tx # tn
  BY <1>1 DEF TransAcked
<1>2. CASE ~(d.state = IDLE \/ d.tx # tn)
  <2>1. s \in Device /\ s.state = d.state /\ s.tx = d.tx /\ s.sent = d.sent
    BY DEF Device
  <2>2. Good(n, s)
    BY <2>1, UpdateGood, SMTT(30) DEF Device
  <2>3. TransAcked(n, d, tn) =
          CASE e.state = FAILED -> LinkClose(e, FAIL)
            [] e.state = COMPLETE -> LinkClose(e, SUCCESS)
            [] e.state = START /\ n = Prov -> SendPdu(n, e, PUBLIC_KEY)
            [] OTHER -> e
    BY <1>2 DEF TransAcked
  <2> HIDE DEF s
  <2>4. ~(n = Prov /\ s.state = LINK_OPENING)
    BY <1>2, <2>1 DEF Good, Steady, Opening
  <2>5. Good(n, e) /\ e \in Device
    BY <2>1, <2>2, <2>4, MonitorGood
  <2>6. e.tx = d.tx /\ e.state = d.state /\ e.sent = d.sent /\ e.timer = "monitor"
    BY <2>1 DEF Arm, Device
  <2> HIDE DEF e
  <2>7. Numbered(e)
    BY <2>5, <2>6, NumberedStays
  <2>8. FAILED # COMPLETE /\ FAILED # START /\ COMPLETE # START /\ PUBLIC_KEY \in PDU \ {INVITE}
    BY DEF FAILED, COMPLETE, START, PUBLIC_KEY, PDU, INVITE
  <2>9. CASE e.state = FAILED
    BY <2>3, <2>5, <2>7, <2>8, <2>9, ReasonType, LinkCloseNumbered
  <2>10. CASE e.state = COMPLETE
    BY <2>3, <2>5, <2>7, <2>8, <2>10, ReasonType, LinkCloseNumbered
  <2>11. CASE e.state = START /\ n = Prov
    BY <2>3, <2>5, <2>6, <2>7, <2>8, <2>11, SendPduNumbered DEF Room
  <2>12. CASE e.state # FAILED /\ e.state # COMPLETE /\ ~(e.state = START /\ n = Prov)
    BY <2>3, <2>7, <2>12
  <2> QED
    BY <2>9, <2>10, <2>11, <2>12
<1> QED
  BY <1>1, <1>2

\* The object of a step forgets what it handed to the bearer and no more.
LEMMA NumberedStep ==
  ASSUME TypeOK, NEW n \in Node, NEW d \in Device, Step(n, d), Numbered(d), \A m \in Node : Numbered(dev[m])
  PROVE  \A m \in Node : Numbered(dev'[m])
<1> DEFINE e == [d EXCEPT !.out = << >>]
<1>1. dev \in [Node -> Device] /\ dev' = [dev EXCEPT ![n] = e]
  BY DEF TypeOK, Step
<1>2. e.state = d.state /\ e.sent = d.sent /\ e.tx = d.tx /\ e.timer = d.timer
  BY DEF Device
<1> HIDE DEF e
<1>3. Numbered(e)
  BY <1>2 DEF Numbered
<1> QED
  BY <1>1, <1>3

AllNumbered == \A n \in Node : Numbered(dev[n])

\* Handling one message keeps the numbers in order, while both nodes have some left.
LEMMA HandleNumbered ==
  ASSUME TypeOK, SInv, AllNumbered, NumbersLast, DevNumbersLast, NEW n \in Node, Handle(n)
  PROVE  AllNumbered'
<1> DEFINE d == dev[n]
           p == Head(q[n])
<1>1. q[n] # << >>
  BY DEF Handle, RecvLinkOpen, RecvLinkAck, RecvLinkClose, RecvTransStart, RecvTransContinue,
         RecvTransAck, HandleDelayAck, HandleDelayPdu, HandleRetry, HandleLinkLoss,
         HandleStaleObject, TimeoutOf, Is
<1>2. d \in Device /\ p \in Message /\ Good(n, d) /\ Room(n, d) /\ Numbered(d)
  BY <1>1, HeadType DEF SInv, NumbersLast, DevNumbersLast, Room, AllNumbered
<1>3. Sane(n, p)
  BY <1>1, SaneQueue DEF SInv, TypeOK
<1>a. ASSUME NEW e \in Device, Numbered(e), Step(n, e) PROVE AllNumbered'
  BY <1>a, NumberedStep DEF AllNumbered
<1>4. CASE RecvLinkOpen(n)
  <2>1. p.kind = "open" /\ p.link \in Link /\ SendResults \subseteq BOOLEAN
    BY <1>2, <1>4, MessageFields DEF RecvLinkOpen, Is, SendResults
  <2>2. CASE p.uuid = n
    <3>1. PICK a \in Addrs, sent \in SendResults : Step(n, LinkOpened(d, p.link, a, sent))
      BY <1>4, <2>2 DEF RecvLinkOpen
    <3>2. LinkOpened(d, p.link, a, sent) \in Device
      BY <1>2, <2>1, LinkOpenedEvolves DEF Evolves
    <3>3. Numbered(LinkOpened(d, p.link, a, sent))
      BY <1>2, <2>1, LinkOpenedNumbered
    <3> QED
      BY <1>a, <3>1, <3>2, <3>3
  <2>3. CASE p.uuid # n
    BY <1>2, <1>4, <1>a, <2>3 DEF RecvLinkOpen
  <2> QED
    BY <2>2, <2>3
<1>5. CASE RecvLinkAck(n)
  <2>1. LinkAcked(n, d) \in Device /\ Numbered(LinkAcked(n, d))
    BY <1>2, LinkAckedEvolves, LinkAckedNumbered DEF Evolves
  <2> QED
    BY <1>5, <1>a, <2>1 DEF RecvLinkAck
<1>6. CASE RecvLinkClose(n)
  <2>1. p.kind = "close" /\ p.reason \in WireReasons /\ Step(n, LinkClosed(d, p.reason))
    BY <1>2, <1>6, MessageFields DEF RecvLinkClose, Is
  <2>2. LinkClosed(d, p.reason) \in Device
    BY <1>2, <2>1, LinkClosedEvolves DEF Kept
  <2>3. Numbered(LinkClosed(d, p.reason))
    BY <1>2, DeletedNumbered DEF LinkClosed
  <2> QED
    BY <1>a, <2>1, <2>2, <2>3
<1>7. CASE RecvTransStart(n)
  <2>1. /\ p.tn \in Byte /\ p.pdu \in PDU /\ p.seg \in 0 .. 2 /\ Step(n, TransStart(d, p))
    BY <1>2, <1>7, MessageFields DEF RecvTransStart, Is
  <2>2. TransStart(d, p) \in Device /\ Numbered(TransStart(d, p))
    BY <1>2, <2>1, TransStartEvolves, SegmentNumbered DEF Kept
  <2> QED
    BY <1>a, <2>1, <2>2
<1>8. CASE RecvTransContinue(n)
  <2>1. p.tn \in Byte /\ p.pdu \in PDU /\ p.seg \in 0 .. 2 /\ Step(n, TransContinue(d, p))
    BY <1>2, <1>8, MessageFields DEF RecvTransContinue, Is
  <2>2. TransContinue(d, p) \in Device /\ Numbered(TransContinue(d, p))
    BY <1>2, <2>1, TransContinueEvolves, SegmentNumbered DEF Evolves
  <2> QED
    BY <1>a, <2>1, <2>2
<1>9. CASE RecvTransAck(n)
  <2>1. p.kind = "trans_ack" /\ Step(n, TransAcked(n, d, p.tn))
    BY <1>9 DEF RecvTransAck, Is
  <2>2. n = Prov => p.tn # 255
    BY <1>3, <2>1 DEF Sane
  <2>3. TransAcked(n, d, p.tn) \in Device /\ Numbered(TransAcked(n, d, p.tn))
    BY <1>2, <2>2, TransAckedEvolves, TransAckedNumbered DEF Evolves
  <2> QED
    BY <1>a, <2>1, <2>3
<1>10. CASE HandleDelayAck(n)
  <2>1. PICK acked \in SendResults, valid \in Verdicts(d.rxpdu) :
          Step(n, AckAndProcess(n, d, acked, valid))
    BY <1>10 DEF HandleDelayAck
  <2>2. acked \in BOOLEAN /\ valid \in BOOLEAN
    BY <2>1 DEF SendResults, Verdicts
  <2>3. d.timer = "delay_ack" /\ d.state # IDLE
    BY <1>10 DEF HandleDelayAck, TimeoutOf
  <2>4. AckAndProcess(n, d, acked, valid) \in Device /\ Numbered(AckAndProcess(n, d, acked, valid))
    BY <1>2, <2>2, <2>3, AckAndProcessEvolves, AckAndProcessNumbered DEF Evolves
  <2> QED
    BY <1>a, <2>1, <2>4
<1>11. CASE HandleDelayPdu(n)
  <2>1. d.timer = "delay_pdu" /\ d.state \in PDU /\ Step(n, FirstSend(d))
    BY <1>11 DEF HandleDelayPdu, TimeoutOf
  <2>2. FirstSend(d) \in Device /\ Numbered(FirstSend(d))
    BY <1>2, <2>1, FirstSendEvolves, FirstSendNumbered DEF Evolves
  <2> QED
    BY <1>a, <2>1, <2>2
<1>12. CASE HandleRetry(n)
  <2>1. d.timer = "retry" /\ Step(n, Retry(d))
    BY <1>12 DEF HandleRetry, TimeoutOf
  <2>2. Retry(d) \in Device /\ Numbered(Retry(d))
    BY <1>2, <2>1, RetryEvolves, RetryNumbered DEF Evolves
  <2> QED
    BY <1>a, <2>1, <2>2
<1>13. CASE HandleLinkLoss(n)
  <2>1. LinkLoss(d) \in Device /\ Numbered(LinkLoss(d))
    BY <1>2, LinkLossEvolves, LinkLossNumbered DEF Evolves
  <2> QED
    BY <1>13, <1>a, <2>1 DEF HandleLinkLoss
<1>14. CASE HandleStaleObject(n)
  BY <1>2, <1>14, <1>a DEF HandleStaleObject
<1> QED
  BY <1>4, <1>5, <1>6, <1>7, <1>8, <1>9, <1>10, <1>11, <1>12, <1>13, <1>14 DEF Handle

\* Nothing else sends PDUs.
LEMMA NextNumbered ==
  ASSUME TypeOK, SInv, AllNumbered, NumbersLast, DevNumbersLast, [Next]_vars
  PROVE  AllNumbered'
<1>1. CASE \E n \in Node : Handle(n)
  BY <1>1, HandleNumbered
<1>2. CASE Connect
  <2>1. dev \in [Node -> Device] /\ session \in Nat /\ Prov \in Node
    BY DEF TypeOK, Node
  <2>2. PICK a \in Addrs :
          dev' = [dev EXCEPT ![Prov] =
                    Arm([Created(dev[Prov], a) EXCEPT !.link = session + 1, !.tx = 255,
                           !.acked = 0, !.state = LINK_OPENING], "retry")]
    BY <1>2 DEF Connect
  <2> DEFINE e == Arm([Created(dev[Prov], a) EXCEPT !.link = session + 1, !.tx = 255,
                         !.acked = 0, !.state = LINK_OPENING], "retry")
  <2>3. e.sent = {}
    BY <2>1 DEF Arm, Created, Zeroed, Device
  <2> HIDE DEF e
  <2>4. Numbered(e)
    BY <2>3 DEF Numbered
  <2>5. dev' = [dev EXCEPT ![Prov] = e]
    BY <2>2 DEF e
  <2> QED
    BY <2>1, <2>4, <2>5 DEF AllNumbered
<1>3. CASE UNCHANGED dev
  BY <1>3 DEF AllNumbered
<1> QED
  BY <1>1, <1>2, <1>3 DEF Next, Fire, Lose, Overhear, vars

\* Nothing has been sent at first.
LEMMA InitNumbered == Init => AllNumbered
<1> SUFFICES ASSUME Init PROVE AllNumbered
  OBVIOUS
<1>1. \A n \in Node : dev[n].sent = {}
  BY DEF Init
<1> QED
  BY <1>1 DEF AllNumbered, Numbered

-----------------------------------------------------------------------------
(* The theorems. *)

\* Types: no handler ever leaves a field outside its C type or puts anything
\* but a packet of the protocol on the air, for every number of retries,
\* length of queue and set of packets overheard.
THEOREM TypeCorrect == Spec => []TypeOK
<1>1. Init => TypeOK
  BY InitHolds
<1>2. TypeOK /\ [Next]_vars => TypeOK'
  BY NextPreserves
<1> QED
  BY <1>1, <1>2, PTL DEF Spec

\* Agreement: neither side reports success before the device has accepted the
\* provisioning data, whatever is lost, repeated, delayed or rejected, over any
\* number of sessions, unless somebody else's packet says so.
THEOREM AgreementHolds ==
  ASSUME \A p \in Overheard : ~Finishing(p)
  PROVE  Spec => []Agreement
<1>1. Init => TypeOK /\ AInv
  BY InitHolds
<1>2. TypeOK /\ AInv /\ [Next]_vars => TypeOK' /\ AInv'
  BY NextPreserves
<1>3. AInv => Agreement
  BY NodeType DEF AInv, Quiet, Unfinished, Agreement, Node
<1> QED
  BY <1>1, <1>2, <1>3, PTL DEF Spec

\* While the provisioner has numbers left, and nobody else's packets carry
\* numbers of the session, the invariant of the two theorems below holds.
LEMMA AlwaysGood ==
  ASSUME Foreign
  PROVE  Spec /\ []NumbersLast => []SInv
<1>1. Init => TypeOK /\ SInv
  BY InitHolds, InitGood
<1>2. TypeOK /\ SInv /\ NumbersLast /\ [Next]_vars => TypeOK' /\ SInv'
  BY NextPreserves, NextGood
<1> QED
  BY <1>1, <1>2, PTL DEF Spec

\* NoAssert: the delay handler never finds a PDU due in a state without one,
\* whatever is lost, repeated, delayed, refused or rejected, over any number of
\* sessions.
THEOREM NeverAsserts ==
  ASSUME Foreign
  PROVE  Spec /\ []NumbersLast => []NoAssert
<1>1. SInv => NoAssert
  BY DEF SInv, Good, Steady, NoAssert
<1> QED
  BY <1>1, AlwaysGood, PTL

\* Supervised: a session is never left without a running timer, if the bearer
\* refuses no acknowledgement.
THEOREM AlwaysSupervised ==
  ASSUME Foreign, ~SendMayFail
  PROVE  Spec /\ []NumbersLast => []Supervised
<1>1. SInv => Supervised
  BY DEF SInv, Good, Timed, Supervised
<1> QED
  BY <1>1, AlwaysGood, PTL

\* TransNumUnambiguous: in one session no two PDUs of a node bear one number,
\* so that the receiver tells a retransmission by it, as long as neither node
\* comes to the end of its half of the numbers.
THEOREM NumbersUnambiguous ==
  ASSUME Foreign
  PROVE  Spec /\ []NumbersLast /\ []DevNumbersLast => []TransNumUnambiguous
<1>1. Init => TypeOK /\ SInv /\ AllNumbered
  BY InitHolds, InitGood, InitNumbered
<1>2. TypeOK /\ SInv /\ AllNumbered /\ NumbersLast /\ DevNumbersLast /\ [Next]_vars
        => TypeOK' /\ SInv' /\ AllNumbered'
  BY NextPreserves, NextGood, NextNumbered
<1>3. AllNumbered => TransNumUnambiguous
  BY DEF AllNumbered, Numbered, TransNumUnambiguous
<1> QED
  BY <1>1, <1>2, <1>3, PTL DEF Spec

-----------------------------------------------------------------------------
(***************************************************************************)
(* The order of a session.  Each node sends the PDUs of its line, each     *)
(* under a number of its own, so that what a node has sent, what its peer  *)
(* has heard and what is under way between them are known from the number  *)
(* of PDUs each has heard.                                                 *)
(***************************************************************************)

\* One link, nobody else's packets, no refusal, and PDUs without content.
OneLink ==
  /\ MaxSessions <= 1 /\ Overheard = {} /\ ~SendMayFail
  /\ INVITE \notin Rejectable /\ FAILED \notin Rejectable

\* What node n sends, PDU i under which number, and how many it may have sent
\* when it has heard c.
ToDev == <<INVITE, START, PUBLIC_KEY, CONFIRMATION, RANDOM, DATA>>
ToProv == <<CAPABILITES, PUBLIC_KEY, CONFIRMATION, RANDOM, COMPLETE>>
Line(n) == IF n = Prov THEN ToDev ELSE ToProv
Last(n) == IF n = Prov THEN 6 ELSE 5
Num(n, i) == IF n = Prov THEN i - 1 ELSE 127 + i
Entry(n, i) == <<Num(n, i), Line(n)[i]>>
May(n, c) ==
  CASE n = Prov -> IF c = 0 THEN 1 ELSE IF c = 1 THEN 3 ELSE IF c < 5 THEN c + 2 ELSE 6
    [] n # Prov -> IF c < 2 THEN c ELSE c - 1

\* The states of a session: PDUs heard, PDUs scheduled, state.
Stages(n) ==
  IF n = Prov
    THEN {<<0, 1, INVITE>>, <<1, 2, START>>, <<1, 3, PUBLIC_KEY>>, <<2, 4, CONFIRMATION>>,
          <<3, 5, RANDOM>>, <<4, 6, DATA>>, <<5, 6, COMPLETE>>}
    ELSE {<<0, 0, LINK_OPENED>>, <<1, 1, CAPABILITES>>, <<2, 1, START>>, <<3, 2, PUBLIC_KEY>>,
          <<4, 3, CONFIRMATION>>, <<5, 4, RANDOM>>, <<6, 5, COMPLETE>>}

\* A node that has given up hears no more; one that is neither opening nor over
\* is live.
Over(d) == d.state \in {IDLE, FAILED, LINK_CLOSING}
Live(d) == d.state # LINK_OPENING /\ ~Over(d)
Count(d) == Len(d.heard)
At(n, d, i) ==
  /\ <<Count(d), i, d.state>> \in Stages(n) /\ d.tx = Num(n, i)
  /\ d.timer \in {"delay_pdu", "retry"} => i # 0 /\ d.state = Line(n)[i]

\* PDU i is the next that e hears, if it hears any.
Ready(e, i) == Over(e) \/ i <= Count(e) + 1

\* e heard the PDUs of the line in order, each of them sent ...
Heard(n, d, e) ==
  /\ Count(e) <= Last(n) /\ Count(e) <= May(n, Count(d))
  /\ \A i \in 1 .. Count(e) : e.heard[i] = Line(n)[i] /\ Entry(n, i) \in d.sent

\* ... and nothing but these and the next one was sent, save for FAILED.
Sent(n, d, e) ==
  \A s \in d.sent : s[2] = FAILED \/ \E i \in 1 .. May(n, Count(d)) : s = Entry(n, i) /\ Ready(e, i)
Placed(n, d, e) == Live(d) => \E i \in 0 .. 6 : At(n, d, i) /\ Count(e) <= i /\ Ready(e, i)

\* Segments travel in the order of their numbers, from d into queue s ...
Stream(d, s) ==
  /\ \A j \in DOMAIN s : s[j].kind = "seg" => <<s[j].tn, s[j].pdu>> \in d.sent
  /\ \A j, k \in DOMAIN s : j < k /\ s[j].kind = "seg" /\ s[k].kind = "seg" => s[j].tn <= s[k].tn

\* ... and into the buffer of e; what is acknowledged is what was heard last.
Buffered(d, e) ==
  e.state >= LINK_OPENED =>
    /\ e.rxpdu # NONE => <<e.rx, e.rxpdu>> \in d.sent /\ \A g \in e.got : g[2] = e.rxpdu
    /\ e.timer = "delay_ack" => e.rxpdu # NONE
Window(n, e, s) ==
  Live(e) =>
    /\ Count(e) = 0 => e.acked = IF n = Prov THEN 255 ELSE 0
    /\ Count(e) # 0 => e.acked = Num(n, Count(e)) /\ (e.rxpdu # NONE => e.rx > e.acked)
    /\ \A j \in DOMAIN s : s[j].kind = "seg" =>
         (Count(e) # 0 => s[j].tn >= e.acked) /\ (e.rxpdu # NONE => s[j].tn >= e.rx)

\* Acknowledgements on their way from e are of PDUs it heard.
Receipt(n, d, e, tn) ==
  /\ \E s \in d.sent : s[1] = tn
  /\ Over(e) \/ \E i \in 1 .. Count(e) : tn = Num(n, i)
Receipts(n, d, e, r) == \A j \in DOMAIN r : r[j].kind = "trans_ack" => Receipt(n, d, e, r[j].tn)

\* All of it, from n at d to its peer at e, with queue s towards it and r back.
Way(n, d, e, s, r) ==
  /\ Heard(n, d, e) /\ Sent(n, d, e) /\ Placed(n, d, e)
  /\ Stream(d, s) /\ Buffered(d, e) /\ Window(n, e, s) /\ Receipts(n, d, e, r)
Ways == \A n \in Node : Way(n, dev[n], dev[Peer(n)], q[Peer(n)], q[n])

\* As long as the link is being opened the device has heard and sent nothing.
Untouched(d) ==
  d.state \in {IDLE, LINK_OPENED, LINK_CLOSING} /\ d.sent = {} /\ d.heard = << >> /\ d.rxpdu = NONE
NoReceipt(s) == \A j \in DOMAIN s : s[j].kind # "trans_ack"
Opens(s) == \E j \in DOMAIN s : s[j].kind = "open"
Early == session = 0 \/ dev[Prov].state = LINK_OPENING \/ Opens(q[Dev])
Opened ==
  /\ session <= 1
  /\ session = 0 => \A n \in Node : dev[n].state = IDLE /\ dev[n].sent = {} /\ dev[n].heard = << >>
                                    /\ dev[n].ended = NOT_ENDED /\ ~dev[n].armed /\ q[n] = << >>
  /\ Early => Untouched(dev[Dev]) /\ NoReceipt(q[Prov])
  /\ dev[Prov].state = LINK_OPENING =>
       dev[Prov].heard = << >> /\ dev[Prov].acked = 0 /\ dev[Prov].rxpdu = NONE
  /\ \A j, k \in DOMAIN q[Dev] : j < k /\ q[Dev][k].kind = "open" => q[Dev][j].kind # "seg"

\* A session that goes on has not ended, a provisioned device heard all, and
\* between steps nothing waits to be handed to the bearer.
Ends ==
  /\ \A n \in Node : dev[n].out = << >>
  /\ \A n \in Node : dev[n].state # IDLE => dev[n].ended = NOT_ENDED
  /\ dev[Dev].provisioned => Count(dev[Dev]) = 6

OInv == Ways /\ Opened /\ Ends

-----------------------------------------------------------------------------
(* The tables *)

\* The numbers of the states.
LEMMA Numbers ==
  /\ IDLE = 0 /\ LINK_OPENING = 1 /\ LINK_OPENED = 2 /\ INVITE = 3 /\ CAPABILITES = 4 /\ START = 5
  /\ PUBLIC_KEY = 6 /\ INPUT_COMPLETE = 7 /\ CONFIRMATION = 8 /\ RANDOM = 9 /\ DATA = 10
  /\ COMPLETE = 11 /\ FAILED = 12 /\ LINK_CLOSING = 13 /\ NONE = 0
  /\ PDU = 3 .. 12 /\ State = 0 .. 13
BY DEF IDLE, LINK_OPENING, LINK_OPENED, INVITE, CAPABILITES, START, PUBLIC_KEY, INPUT_COMPLETE,
       CONFIRMATION, RANDOM, DATA, COMPLETE, FAILED, LINK_CLOSING, NONE, PDU, State

\* The lines.
LEMMA Lines ==
  /\ Line(Prov)[1] = 3 /\ Line(Prov)[2] = 5 /\ Line(Prov)[3] = 6 /\ Line(Prov)[4] = 8
  /\ Line(Prov)[5] = 9 /\ Line(Prov)[6] = 10
  /\ Line(Dev)[1] = 4 /\ Line(Dev)[2] = 6 /\ Line(Dev)[3] = 8 /\ Line(Dev)[4] = 9 /\ Line(Dev)[5] = 11
BY Numbers, NodeType DEF Line, ToDev, ToProv, Prov, Dev

\* A stage, and how many PDUs a node may have sent in it.
LEMMA StageOf ==
  ASSUME NEW n \in Node, NEW c \in Nat, NEW i, NEW st, <<c, i, st>> \in Stages(n)
  PROVE  /\ i \in 0 .. Last(n) /\ c <= Last(Peer(n)) /\ i <= May(n, c)
         /\ st # 1 /\ st >= 2 /\ st <= 11
         /\ n = Prov => \/ c = 0 /\ i = 1 /\ st = 3
                        \/ c = 1 /\ i = 2 /\ st = 5
                        \/ c = 1 /\ i = 3 /\ st = 6
                        \/ c = 2 /\ i = 4 /\ st = 8
                        \/ c = 3 /\ i = 5 /\ st = 9
                        \/ c = 4 /\ i = 6 /\ st = 10
                        \/ c = 5 /\ i = 6 /\ st = 11
         /\ n = Dev => \/ c = 0 /\ i = 0 /\ st = 2
                       \/ c = 1 /\ i = 1 /\ st = 4
                       \/ c = 2 /\ i = 1 /\ st = 5
                       \/ c = 3 /\ i = 2 /\ st = 6
                       \/ c = 4 /\ i = 3 /\ st = 8
                       \/ c = 5 /\ i = 4 /\ st = 9
                       \/ c = 6 /\ i = 5 /\ st = 11
<1>1. CASE n = Prov
  BY <1>1, Numbers DEF Stages, Last, May, Peer, Prov, Dev
<1>2. CASE n = Dev
  BY <1>2, Numbers DEF Stages, Last, May, Peer, Prov, Dev
<1> QED
  BY <1>1, <1>2 DEF Node

\* What follows from hearing PDU c + 1 of the peer: it is taken and answered,
\* if it is answered, with the next PDU of the node's own line.
LEMMA NextStage ==
  ASSUME NEW n \in Node, NEW c \in Nat, NEW i, NEW st, <<c, i, st>> \in Stages(n),
         c < Last(Peer(n)), n = Prov /\ c = 1 => i = 3
  PROVE  LET pdu == Line(Peer(n))[c + 1]
             ans == Answer(n, pdu)
         IN /\ pdu \in 3 .. 11 /\ st <= pdu
            /\ ans = NONE => <<c + 1, i, pdu>> \in Stages(n)
            /\ ans # NONE =>
                 /\ ans \in 3 .. 11 /\ ans # 3 /\ MaySend(pdu, ans)
                 /\ <<c + 1, i + 1, ans>> \in Stages(n) /\ Line(n)[i + 1] = ans
                 /\ NextTn(n, Num(n, i), ans) = Num(n, i + 1)
<1>1. CASE n = Prov
  <2>1. c \in 0 .. 4 /\ Peer(n) = Dev
    BY <1>1, NodeType DEF Last, Peer, Prov, Dev
  <2>2. \/ c = 0 /\ i = 1 /\ st = 3
        \/ c = 1 /\ i = 3 /\ st = 6
        \/ c = 2 /\ i = 4 /\ st = 8
        \/ c = 3 /\ i = 5 /\ st = 9
        \/ c = 4 /\ i = 6 /\ st = 10
    BY <1>1, <2>1, StageOf
  <2>3. /\ Answer(Prov, 4) = 5 /\ Answer(Prov, 6) = 8 /\ Answer(Prov, 8) = 9 /\ Answer(Prov, 9) = 10
        /\ Answer(Prov, 11) = 0
    BY Numbers DEF Answer, Prov, Dev
  <2>4. MaySend(4, 5) /\ MaySend(6, 8) /\ MaySend(8, 9) /\ MaySend(9, 10)
    BY Numbers DEF MaySend
  <2>5. /\ NextTn(Prov, Num(Prov, 1), 5) = 1 /\ NextTn(Prov, Num(Prov, 3), 8) = 3
        /\ NextTn(Prov, Num(Prov, 4), 9) = 4 /\ NextTn(Prov, Num(Prov, 5), 10) = 5
    BY Numbers DEF NextTn, ProvNextTn, DevNextTn, Num, Prov, Dev
  <2>6. Num(Prov, 2) = 1 /\ Num(Prov, 4) = 3 /\ Num(Prov, 5) = 4 /\ Num(Prov, 6) = 5
    BY DEF Num
  <2>7. Stages(Prov) = {<<0, 1, 3>>, <<1, 2, 5>>, <<1, 3, 6>>, <<2, 4, 8>>, <<3, 5, 9>>, <<4, 6, 10>>, <<5, 6, 11>>}
    BY Numbers DEF Stages
  <2>8. CASE c = 0
    BY <1>1, <2>1, <2>2, <2>3, <2>4, <2>5, <2>6, <2>7, <2>8, Lines, Numbers
  <2>9. CASE c = 1
    BY <1>1, <2>1, <2>2, <2>3, <2>4, <2>5, <2>6, <2>7, <2>9, Lines, Numbers
  <2>10. CASE c = 2
    BY <1>1, <2>1, <2>2, <2>3, <2>4, <2>5, <2>6, <2>7, <2>10, Lines, Numbers
  <2>11. CASE c = 3
    BY <1>1, <2>1, <2>2, <2>3, <2>4, <2>5, <2>6, <2>7, <2>11, Lines, Numbers
  <2>12. CASE c = 4
    BY <1>1, <2>1, <2>2, <2>3, <2>4, <2>5, <2>6, <2>7, <2>12, Lines, Numbers
  <2> QED
    BY <2>1, <2>8, <2>9, <2>10, <2>11, <2>12
<1>2. CASE n = Dev
  <2>1. c \in 0 .. 5 /\ Peer(n) = Prov
    BY <1>2, NodeType DEF Last, Peer, Prov, Dev
  <2>2. \/ c = 0 /\ i = 0 /\ st = 2
        \/ c = 1 /\ i = 1 /\ st = 4
        \/ c = 2 /\ i = 1 /\ st = 5
        \/ c = 3 /\ i = 2 /\ st = 6
        \/ c = 4 /\ i = 3 /\ st = 8
        \/ c = 5 /\ i = 4 /\ st = 9
    BY <1>2, <2>1, StageOf
  <2>3. /\ Answer(Dev, 3) = 4 /\ Answer(Dev, 5) = 0 /\ Answer(Dev, 6) = 6 /\ Answer(Dev, 8) = 8
        /\ Answer(Dev, 9) = 9 /\ Answer(Dev, 10) = 11
    BY Numbers DEF Answer, Prov, Dev
  <2>4. MaySend(3, 4) /\ MaySend(6, 6) /\ MaySend(8, 8) /\ MaySend(9, 9) /\ MaySend(10, 11)
    BY Numbers DEF MaySend
  <2>5. /\ NextTn(Dev, Num(Dev, 0), 4) = 128 /\ NextTn(Dev, Num(Dev, 1), 6) = 129
        /\ NextTn(Dev, Num(Dev, 2), 8) = 130 /\ NextTn(Dev, Num(Dev, 3), 9) = 131
        /\ NextTn(Dev, Num(Dev, 4), 11) = 132
    BY Numbers DEF NextTn, ProvNextTn, DevNextTn, Num, Prov, Dev
  <2>6. Num(Dev, 1) = 128 /\ Num(Dev, 2) = 129 /\ Num(Dev, 3) = 130 /\ Num(Dev, 4) = 131 /\ Num(Dev, 5) = 132
    BY DEF Num, Prov, Dev
  <2>7. Stages(Dev) = {<<0, 0, 2>>, <<1, 1, 4>>, <<2, 1, 5>>, <<3, 2, 6>>, <<4, 3, 8>>, <<5, 4, 9>>, <<6, 5, 11>>}
    BY Numbers DEF Stages, Prov, Dev
  <2>8. CASE c = 0
    BY <1>2, <2>1, <2>2, <2>3, <2>4, <2>5, <2>6, <2>7, <2>8, Lines, Numbers
  <2>9. CASE c = 1
    BY <1>2, <2>1, <2>2, <2>3, <2>4, <2>5, <2>6, <2>7, <2>9, Lines, Numbers
  <2>10. CASE c = 2
    BY <1>2, <2>1, <2>2, <2>3, <2>4, <2>5, <2>6, <2>7, <2>10, Lines, Numbers
  <2>11. CASE c = 3
    BY <1>2, <2>1, <2>2, <2>3, <2>4, <2>5, <2>6, <2>7, <2>11, Lines, Numbers
  <2>12. CASE c = 4
    BY <1>2, <2>1, <2>2, <2>3, <2>4, <2>5, <2>6, <2>7, <2>12, Lines, Numbers
  <2>13. CASE c = 5
    BY <1>2, <2>1, <2>2, <2>3, <2>4, <2>5, <2>6, <2>7, <2>13, Lines, Numbers
  <2> QED
    BY <2>1, <2>8, <2>9, <2>10, <2>11, <2>12, <2>13
<1> QED
  BY <1>1, <1>2 DEF Node

\* Both sides of a stage: how far the peer is behind, b of its own PDUs heard.
LEMMA StageBound ==
  ASSUME NEW n \in Node, NEW c \in Nat, NEW i, NEW st, <<c, i, st>> \in Stages(n),
         NEW b \in Nat, c <= May(Peer(n), b), n = Prov /\ c = 1 => i = 2 \/ b >= 2
  PROVE  i <= b + 1
<1>1. CASE n = Prov
  BY <1>1, StageOf DEF May, Peer, Prov, Dev
<1>2. CASE n = Dev
  BY <1>2, StageOf DEF May, Peer, Prov, Dev
<1> QED
  BY <1>1, <1>2 DEF Node

\* More heard, more may be sent.
LEMMA MayGrows ==
  ASSUME NEW n \in Node, NEW c \in Nat, NEW b \in Nat, c <= b
  PROVE  May(n, c) \in Nat /\ May(n, b) \in Nat /\ (b <= 6 => May(n, c) <= May(n, b))
BY DEF May, Node, Prov, Dev

\* Numbers tell the PDUs of a line apart.
LEMMA NumOf ==
  ASSUME NEW n \in Node, NEW i \in Nat, NEW k \in Nat
  PROVE  /\ Num(n, i) = Num(n, k) => i = k
         /\ Num(n, i) < Num(n, k) <=> i < k
         /\ i >= 1 => Num(n, i) \in Nat
BY DEF Num, Node, Prov, Dev

-----------------------------------------------------------------------------
(* One step of a node *)

\* What a handler of node n starts from: its object d, its peer's e, the queue
\* s towards the peer and its own queue r.
Setting(n, d, e, s, r) ==
  /\ d \in Device /\ e \in Device /\ s \in Seq(Message) /\ r \in Seq(Message) /\ d.out = << >>
  /\ Good(n, d) /\ Room(n, d) /\ Numbered(d) /\ Numbered(e)
  /\ Way(n, d, e, s, r) /\ Way(Peer(n), e, d, r, s)

\* What it says: segments of the PDU it is sending, acknowledgements of PDUs it heard.
Says(n, d, e, x) ==
  \A j \in DOMAIN x.out :
    /\ x.out[j].kind = "seg" =>
         d.state # IDLE /\ x.out[j].tn = d.tx /\ <<x.out[j].tn, x.out[j].pdu>> \in x.sent
    /\ x.out[j].kind = "trans_ack" => Receipt(Peer(n), e, x, x.out[j].tn)

\* What it makes of its object: it goes on in order, or starts afresh.
Result(n, d, e, s, t, x) ==
  /\ x \in Device /\ d.sent \subseteq x.sent /\ Count(d) <= Count(x)
  /\ (Over(d) => Over(x)) \/ (n = Dev /\ Count(d) = 0 /\ Count(e) = 0 /\ NoReceipt(s))
  /\ Heard(Peer(n), e, x) /\ Sent(n, x, e) /\ Placed(n, x, e)
  /\ Buffered(e, x) /\ Window(Peer(n), x, t) /\ Says(n, d, e, x)

\* The two nodes are each other's peers.
LEMMA Peers ==
  ASSUME NEW n \in Node
  PROVE  Peer(n) \in Node /\ Peer(n) # n /\ Peer(Peer(n)) = n /\ \A k \in Node : k = n \/ k = Peer(n)
BY DEF Peer, Node, Prov, Dev

\* Counts are numbers.
LEMMA CountType ==
  ASSUME NEW d \in Device
  PROVE  Count(d) \in Nat /\ d.heard \in Seq(PDU) /\ DOMAIN d.heard = 1 .. Count(d)
<1>1. d.heard \in Seq(PDU)
  BY DEF Device
<1> QED
  BY <1>1 DEF Count

\* The packets of a step have left the object at its end, nothing else changes.
LEMMA OutFields ==
  ASSUME NEW x \in Device
  PROVE  LET y == [x EXCEPT !.out = << >>]
         IN  /\ y.state = x.state /\ y.tx = x.tx /\ y.rx = x.rx /\ y.acked = x.acked
             /\ y.timer = x.timer /\ y.rxpdu = x.rxpdu /\ y.got = x.got /\ y.heard = x.heard
             /\ y.sent = x.sent /\ y.ended = x.ended /\ y.provisioned = x.provisioned
             /\ y.out = << >>
BY DEF Device

\* A queue after a step: what was in it comes first.
LEMMA QueueAfter ==
  ASSUME NEW s \in Seq(Message), NEW pkts \in Seq(Packet)
  PROVE  /\ Enqueue(s, pkts) \in Seq(Message)
         /\ \A j \in DOMAIN Enqueue(s, pkts) :
              \/ j \in DOMAIN s /\ Enqueue(s, pkts)[j] = s[j]
              \/ j > Len(s) /\ j - Len(s) \in DOMAIN pkts /\ Enqueue(s, pkts)[j] = pkts[j - Len(s)]
<1>1. pkts \in Seq(Message)
  BY DEF Message
<1> QED
  BY <1>1 DEF Enqueue

LEMMA QueueTail ==
  ASSUME NEW r \in Seq(Message), r # << >>
  PROVE  /\ Tail(r) \in Seq(Message) /\ 1 \in DOMAIN r /\ Head(r) = r[1]
         /\ \A j \in DOMAIN Tail(r) : j + 1 \in DOMAIN r /\ j + 1 > 1 /\ Tail(r)[j] = r[j + 1]
OBVIOUS

\* The PDUs a live node has heard or is putting together are not ahead of the
\* number its peer is at.
LEMMA NotAhead ==
  ASSUME NEW n \in Node, NEW d, NEW e, NEW s, NEW r, Setting(n, d, e, s, r), d.state # IDLE
  PROVE  /\ Count(e) # 0 => Num(n, Count(e)) <= d.tx
         /\ Live(e) /\ e.rxpdu # NONE => e.rx <= d.tx
<1>1. d \in Device /\ e \in Device /\ Numbered(d) /\ Heard(n, d, e) /\ Buffered(d, e)
  BY DEF Setting, Way
<1>2. \A p \in d.sent : p[1] <= d.tx
  BY <1>1 DEF Numbered
<1>3. Count(e) # 0 => Num(n, Count(e)) <= d.tx
  <2>1. SUFFICES ASSUME Count(e) # 0 PROVE Num(n, Count(e)) <= d.tx
    OBVIOUS
  <2>2. Count(e) \in 1 .. Count(e)
    BY <1>1, <2>1, CountType
  <2>3. Entry(n, Count(e)) \in d.sent
    BY <1>1, <2>2 DEF Heard
  <2> QED
    BY <1>2, <2>3 DEF Entry
<1>4. Live(e) => e.state >= LINK_OPENED
  <2>1. e.state \in 0 .. 13
    BY <1>1, Numbers DEF Device
  <2> QED
    BY <2>1, Numbers DEF Live, Over
<1>5. Live(e) /\ e.rxpdu # NONE => e.rx <= d.tx
  <2>1. Live(e) /\ e.rxpdu # NONE => <<e.rx, e.rxpdu>> \in d.sent
    BY <1>1, <1>4 DEF Buffered
  <2> QED
    BY <1>2, <2>1
<1> QED
  BY <1>3, <1>5

\* What n sent stands, when it has moved.
LEMMA OutgoingWay ==
  ASSUME NEW n \in Node, NEW d, NEW e, NEW s, NEW r, Setting(n, d, e, s, r), r # << >>,
         NEW x, Result(n, d, e, s, Tail(r), x)
  PROVE  Way(n, [x EXCEPT !.out = << >>], e, Enqueue(s, x.out), Tail(r))
<1> DEFINE y == [x EXCEPT !.out = << >>]
           t == Enqueue(s, x.out)
<1>1. /\ d \in Device /\ e \in Device /\ x \in Device /\ s \in Seq(Message) /\ r \in Seq(Message)
      /\ Numbered(d) /\ Way(n, d, e, s, r) /\ Says(n, d, e, x) /\ d.sent \subseteq x.sent
      /\ Count(d) <= Count(x) /\ Heard(Peer(n), e, x) /\ Sent(n, x, e) /\ Placed(n, x, e)
  BY DEF Setting, Result
<1>2. /\ y.state = x.state /\ y.tx = x.tx /\ y.timer = x.timer /\ y.heard = x.heard
      /\ y.sent = x.sent
  BY <1>1, OutFields
<1>3. x.out \in Seq(Packet)
  BY <1>1 DEF Device
<1>4. /\ t \in Seq(Message)
      /\ \A j \in DOMAIN t : \/ j \in DOMAIN s /\ t[j] = s[j]
                             \/ j > Len(s) /\ j - Len(s) \in DOMAIN x.out /\ t[j] = x.out[j - Len(s)]
  BY <1>1, <1>3, QueueAfter
<1>5. /\ Tail(r) \in Seq(Message)
      /\ \A j \in DOMAIN Tail(r) : j + 1 \in DOMAIN r /\ Tail(r)[j] = r[j + 1]
  BY <1>1, QueueTail
<1> HIDE DEF y, t
<1>6. Count(d) \in Nat /\ Count(e) \in Nat /\ Count(x) \in Nat /\ Count(y) = Count(x)
  BY <1>1, <1>2, CountType DEF Count
<1>7. Heard(n, y, e)
  <2>1. Count(x) <= 6
    BY <1>1, <1>6 DEF Heard, Last
  <2>2. May(n, Count(d)) \in Nat /\ May(n, Count(x)) \in Nat /\ May(n, Count(d)) <= May(n, Count(x))
    BY <1>1, <1>6, <2>1, MayGrows
  <2>3. Heard(n, d, e)
    BY <1>1 DEF Way
  <2>4. Count(e) <= May(n, Count(y))
    BY <1>6, <2>2, <2>3 DEF Heard
  <2> QED
    BY <1>1, <1>2, <2>3, <2>4 DEF Heard
<1>8. Sent(n, y, e) /\ Placed(n, y, e)
  BY <1>1, <1>2, <1>6 DEF Sent, Placed, At, Live, Over
<1>9. ASSUME NEW j \in DOMAIN t, t[j].kind = "seg"
      PROVE  \/ j \in DOMAIN s /\ t[j] = s[j] /\ <<t[j].tn, t[j].pdu>> \in d.sent
             \/ j > Len(s) /\ d.state # IDLE /\ t[j].tn = d.tx /\ <<t[j].tn, t[j].pdu>> \in x.sent
  <2>1. CASE j \in DOMAIN s /\ t[j] = s[j]
    BY <1>1, <1>9, <2>1 DEF Way, Stream
  <2>2. CASE j > Len(s) /\ j - Len(s) \in DOMAIN x.out /\ t[j] = x.out[j - Len(s)]
    BY <1>1, <1>9, <2>2 DEF Says
  <2> QED
    BY <1>4, <1>9, <2>1, <2>2
<1>10. \A p \in d.sent : d.state # IDLE => p[1] <= d.tx
  BY <1>1 DEF Numbered
<1>11. d.tx \in Nat
  BY <1>1, SentType
<1>12. Stream(y, t)
  <2>1. \A j \in DOMAIN t : t[j].kind = "seg" => <<t[j].tn, t[j].pdu>> \in y.sent
    BY <1>1, <1>2, <1>9
  <2>2. ASSUME NEW j \in DOMAIN t, NEW k \in DOMAIN t, j < k, t[j].kind = "seg", t[k].kind = "seg"
        PROVE  t[j].tn <= t[k].tn
    <3>1. CASE j \in DOMAIN s /\ t[j] = s[j] /\ <<t[j].tn, t[j].pdu>> \in d.sent
      <4>1. CASE k \in DOMAIN s /\ t[k] = s[k]
        BY <1>1, <2>2, <3>1, <4>1 DEF Way, Stream
      <4>2. CASE d.state # IDLE /\ t[k].tn = d.tx
        <5>1. <<t[j].tn, t[j].pdu>>[1] <= d.tx
          BY <1>10, <3>1, <4>2
        <5> QED
          BY <4>2, <5>1
      <4> QED
        BY <1>9, <2>2, <4>1, <4>2
    <3>2. CASE j > Len(s) /\ t[j].tn = d.tx
      <4>1. t[k].tn = d.tx
        <5>1. k \notin DOMAIN s
          BY <1>1, <1>4, <2>2, <3>2
        <5> QED
          BY <1>9, <2>2, <5>1
      <4> QED
        BY <1>11, <3>2, <4>1
    <3> QED
      BY <1>9, <2>2, <3>1, <3>2
  <2> QED
    BY <2>1, <2>2 DEF Stream
<1>13. Buffered(y, e)
  BY <1>1, <1>2 DEF Way, Buffered
<1>14. Window(n, e, t)
  <2>1. SUFFICES ASSUME Live(e) PROVE Window(n, e, t)
    BY DEF Window
  <2>2. ASSUME NEW j \in DOMAIN t, t[j].kind = "seg"
        PROVE  (Count(e) # 0 => t[j].tn >= e.acked) /\ (e.rxpdu # NONE => t[j].tn >= e.rx)
    <3>1. CASE j \in DOMAIN s /\ t[j] = s[j]
      BY <1>1, <2>1, <2>2, <3>1 DEF Way, Window
    <3>2. CASE d.state # IDLE /\ t[j].tn = d.tx
      <4>1. Count(e) # 0 => Num(n, Count(e)) <= d.tx
        BY <3>2, NotAhead
      <4>2. e.rxpdu # NONE => e.rx <= d.tx
        BY <2>1, <3>2, NotAhead
      <4>3. Count(e) # 0 => e.acked = Num(n, Count(e))
        BY <1>1, <2>1 DEF Way, Window
      <4>4. e.acked \in Nat /\ e.rx \in Nat
        <5>1. e.acked \in Byte /\ e.rx \in Byte
          BY <1>1 DEF Device
        <5>2. \A b \in Byte : b \in Nat
          BY DEF Byte
        <5> QED
          BY <5>1, <5>2
      <4> QED
        BY <1>11, <3>2, <4>1, <4>2, <4>3, <4>4
    <3> QED
      BY <1>9, <2>2, <3>1, <3>2
  <2> QED
    BY <1>1, <2>1, <2>2 DEF Way, Window
<1>15. Receipts(n, y, e, Tail(r))
  <2>1. \A tn : Receipt(n, d, e, tn) => Receipt(n, y, e, tn)
    BY <1>1, <1>2 DEF Receipt
  <2> QED
    BY <1>1, <1>5, <2>1 DEF Way, Receipts
<1> QED
  BY <1>7, <1>8, <1>12, <1>13, <1>14, <1>15 DEF Way, y, t

\* What n heard stands too.
LEMMA IncomingWay ==
  ASSUME NEW n \in Node, NEW d, NEW e, NEW s, NEW r, Setting(n, d, e, s, r), r # << >>,
         NEW x, Result(n, d, e, s, Tail(r), x)
  PROVE  Way(Peer(n), e, [x EXCEPT !.out = << >>], Tail(r), Enqueue(s, x.out))
<1> DEFINE y == [x EXCEPT !.out = << >>]
           t == Enqueue(s, x.out)
           m == Peer(n)
           Afresh == n = Dev /\ Count(d) = 0 /\ Count(e) = 0 /\ NoReceipt(s)
<1>1. /\ d \in Device /\ e \in Device /\ x \in Device /\ s \in Seq(Message) /\ r \in Seq(Message)
      /\ Numbered(e) /\ Way(m, e, d, r, s) /\ Says(n, d, e, x)
      /\ Count(d) <= Count(x) /\ Heard(m, e, x) /\ Buffered(e, x) /\ Window(m, x, Tail(r))
      /\ (Over(d) => Over(x)) \/ Afresh
  BY DEF Setting, Result
<1>2. /\ y.state = x.state /\ y.tx = x.tx /\ y.rx = x.rx /\ y.acked = x.acked
      /\ y.timer = x.timer /\ y.rxpdu = x.rxpdu /\ y.got = x.got /\ y.heard = x.heard
      /\ y.sent = x.sent
  BY <1>1, OutFields
<1>3. x.out \in Seq(Packet) /\ m \in Node
  BY <1>1, Peers DEF Device
<1>4. \A j \in DOMAIN t : \/ j \in DOMAIN s /\ t[j] = s[j]
                          \/ j - Len(s) \in DOMAIN x.out /\ t[j] = x.out[j - Len(s)]
  BY <1>1, <1>3, QueueAfter
<1>5. /\ Tail(r) \in Seq(Message)
      /\ \A j \in DOMAIN Tail(r) : j + 1 \in DOMAIN r /\ Tail(r)[j] = r[j + 1]
  BY <1>1, QueueTail
<1>6. n = Dev => m = Prov
  BY DEF Peer, Prov, Dev
<1> HIDE DEF y, t, m
<1>7. Count(d) \in Nat /\ Count(e) \in Nat /\ Count(x) \in Nat /\ Count(y) = Count(x) /\ (Over(y) <=> Over(x))
  BY <1>1, <1>2, CountType DEF Count, Over
<1>8. Heard(m, e, y)
  BY <1>1, <1>2, <1>7 DEF Heard
<1>9. ASSUME NEW i \in Nat, Ready(d, i), Afresh => i <= 1
      PROVE  Ready(y, i)
  BY <1>1, <1>7, <1>9 DEF Ready
<1>10. Sent(m, e, y)
  <2>1. ASSUME NEW i \in 1 .. May(m, Count(e)), Ready(d, i) PROVE Ready(y, i)
    <3>1. Afresh => May(m, Count(e)) = 1
      BY <1>6 DEF May
    <3>2. May(m, Count(e)) \in Nat
      BY <1>3, <1>7, MayGrows
    <3> QED
      BY <1>9, <2>1, <3>1, <3>2
  <2> QED
    BY <1>1, <2>1 DEF Way, Sent
<1>11. Placed(m, e, y)
  <2>1. SUFFICES ASSUME Live(e) PROVE \E i \in 0 .. 6 : At(m, e, i) /\ Count(y) <= i /\ Ready(y, i)
    BY DEF Placed
  <2>2. PICK i \in 0 .. 6 : At(m, e, i) /\ Count(d) <= i /\ Ready(d, i)
    BY <1>1, <2>1 DEF Way, Placed
  <2>3. <<Count(e), i, e.state>> \in Stages(m) /\ e.tx = Num(m, i)
    BY <2>2 DEF At
  <2>4. Afresh => i <= 1
    BY <1>3, <1>6, <1>7, <2>3, StageOf
  <2>5. Ready(y, i)
    BY <1>9, <2>2, <2>4
  <2>6. Count(x) <= i
    <3>1. CASE Count(x) = 0
      BY <2>2, <3>1
    <3>2. CASE Count(x) # 0
      <4>1. Count(x) \in 1 .. Count(x)
        BY <1>7, <3>2
      <4>2. Entry(m, Count(x)) \in e.sent
        BY <1>1, <4>1 DEF Heard
      <4>3. e.state # IDLE
        BY <2>1 DEF Live, Over
      <4>4. Entry(m, Count(x))[1] <= e.tx
        BY <1>1, <4>2, <4>3 DEF Numbered
      <4> QED
        BY <1>7, <2>2, <2>3, <4>4 DEF Entry, Num
    <3> QED
      BY <3>1, <3>2
  <2> QED
    BY <1>7, <2>2, <2>5, <2>6
<1>12. Stream(e, Tail(r))
  <2>1. Stream(e, r)
    BY <1>1 DEF Way
  <2>2. \A j \in DOMAIN Tail(r) : Tail(r)[j].kind = "seg" => <<Tail(r)[j].tn, Tail(r)[j].pdu>> \in e.sent
    BY <1>5, <2>1 DEF Stream
  <2>3. ASSUME NEW j \in DOMAIN Tail(r), NEW k \in DOMAIN Tail(r), j < k,
               Tail(r)[j].kind = "seg", Tail(r)[k].kind = "seg"
        PROVE  Tail(r)[j].tn <= Tail(r)[k].tn
    <3>1. j + 1 \in DOMAIN r /\ k + 1 \in DOMAIN r /\ j + 1 < k + 1
          /\ Tail(r)[j] = r[j + 1] /\ Tail(r)[k] = r[k + 1]
      BY <1>5, <2>3
    <3> QED
      BY <2>1, <2>3, <3>1 DEF Stream
  <2> QED
    BY <2>2, <2>3 DEF Stream
<1>13. Buffered(e, y)
  BY <1>1, <1>2 DEF Buffered
<1>14. Window(m, y, Tail(r))
  BY <1>1, <1>2, <1>7 DEF Window, Live, Over
<1>15. Receipts(m, e, y, t)
  <2>1. SUFFICES ASSUME NEW j \in DOMAIN t, t[j].kind = "trans_ack" PROVE Receipt(m, e, y, t[j].tn)
    BY DEF Receipts
  <2>2. CASE j \in DOMAIN s /\ t[j] = s[j]
    <3>1. Receipt(m, e, d, t[j].tn)
      BY <1>1, <2>1, <2>2 DEF Way, Receipts
    <3>2. ~NoReceipt(s)
      BY <2>1, <2>2 DEF NoReceipt
    <3>3. \A i \in 1 .. Count(d) : i \in 1 .. Count(y)
      BY <1>1, <1>7
    <3> QED
      BY <1>1, <1>7, <3>1, <3>2, <3>3 DEF Receipt
  <2>3. CASE j - Len(s) \in DOMAIN x.out /\ t[j] = x.out[j - Len(s)]
    <3>1. Receipt(m, e, x, t[j].tn)
      BY <1>1, <2>1, <2>3 DEF Says, m
    <3> QED
      BY <1>7, <3>1 DEF Receipt
  <2> QED
    BY <1>4, <2>2, <2>3
<1> QED
  BY <1>8, <1>10, <1>11, <1>12, <1>13, <1>14, <1>15 DEF Way, y, t, m

\* A step that hears nothing: what was sent before or is being sent is in order.
LEMMA LogStays ==
  ASSUME NEW n \in Node, NEW d, NEW e, NEW s, NEW r, Setting(n, d, e, s, r),
         NEW x \in Device, x.heard = d.heard
  PROVE  /\ Count(x) = Count(d) /\ Heard(Peer(n), e, x)
         /\ x.sent = d.sent => Sent(n, x, e)
         /\ x.sent = d.sent \cup {<<d.tx, d.state>>} /\ d.state \in PDU /\ d.timer \in {"delay_pdu", "retry"}
              => Sent(n, x, e)
<1>1. /\ d \in Device /\ e \in Device /\ Heard(Peer(n), e, d) /\ Sent(n, d, e) /\ Placed(n, d, e)
  BY DEF Setting, Way
<1>2. Count(x) = Count(d)
  BY DEF Count
<1>3. Heard(Peer(n), e, x)
  BY <1>1, <1>2 DEF Heard
<1>4. x.sent = d.sent => Sent(n, x, e)
  BY <1>1, <1>2 DEF Sent
<1>5. ASSUME x.sent = d.sent \cup {<<d.tx, d.state>>}, d.state \in PDU, d.timer \in {"delay_pdu", "retry"}
      PROVE  Sent(n, x, e)
  <2>1. SUFFICES d.state = FAILED \/ \E i \in 1 .. May(n, Count(d)) : <<d.tx, d.state>> = Entry(n, i) /\ Ready(e, i)
    BY <1>1, <1>2, <1>5 DEF Sent
  <2>2. SUFFICES ASSUME d.state # FAILED
                 PROVE  \E i \in 1 .. May(n, Count(d)) : <<d.tx, d.state>> = Entry(n, i) /\ Ready(e, i)
    OBVIOUS
  <2>3. Live(d)
    BY <1>5, <2>2, Numbers DEF Live, Over
  <2>4. PICK i \in 0 .. 6 : At(n, d, i) /\ Ready(e, i)
    BY <1>1, <2>3 DEF Placed
  <2>5. i # 0 /\ d.state = Line(n)[i] /\ d.tx = Num(n, i) /\ <<Count(d), i, d.state>> \in Stages(n)
    BY <1>5, <2>4 DEF At
  <2>6. i <= May(n, Count(d)) /\ May(n, Count(d)) \in Nat
    BY <1>1, <2>5, CountType, StageOf, MayGrows
  <2> QED
    BY <2>4, <2>5, <2>6 DEF Entry
<1> QED
  BY <1>2, <1>3, <1>4, <1>5

\* A step that leaves the receiver's side alone.
LEMMA WindowStays ==
  ASSUME NEW n \in Node, NEW d, NEW e, NEW s, NEW r, Setting(n, d, e, s, r), r # << >>,
         NEW x \in Device, x.heard = d.heard, Live(x) => Live(d),
         x.acked = d.acked, x.rx = d.rx, x.rxpdu = d.rxpdu, x.got = d.got
  PROVE  /\ Window(Peer(n), x, Tail(r))
         /\ (x.timer = "delay_ack" => d.timer = "delay_ack")
              /\ (d.state >= LINK_OPENED \/ (x.rxpdu = NONE /\ x.timer # "delay_ack"))
            => Buffered(e, x)
<1>1. r \in Seq(Message) /\ Window(Peer(n), d, r) /\ Buffered(e, d)
  BY DEF Setting, Way
<1>2. \A j \in DOMAIN Tail(r) : j + 1 \in DOMAIN r /\ Tail(r)[j] = r[j + 1]
  BY <1>1, QueueTail
<1>3. Window(Peer(n), x, Tail(r))
  BY <1>1, <1>2 DEF Window, Count
<1>4. (x.timer = "delay_ack" => d.timer = "delay_ack")
        /\ (d.state >= LINK_OPENED \/ (x.rxpdu = NONE /\ x.timer # "delay_ack"))
      => Buffered(e, x)
  BY <1>1 DEF Buffered
<1> QED
  BY <1>3, <1>4

\* A step after which the node hears no more.
LEMMA Quits ==
  ASSUME NEW n \in Node, NEW d, NEW e, NEW s, NEW r, Setting(n, d, e, s, r), r # << >>,
         NEW x \in Device, Over(x), x.heard = d.heard,
         \/ x.sent = d.sent
         \/ x.sent = d.sent \cup {<<d.tx, d.state>>} /\ d.state \in PDU /\ d.timer \in {"delay_pdu", "retry"},
         Buffered(e, x), Says(n, d, e, x)
  PROVE  Result(n, d, e, s, Tail(r), x)
<1>1. d \in Device /\ d.sent \subseteq x.sent
  BY DEF Setting
<1>2. Count(x) = Count(d) /\ Heard(Peer(n), e, x) /\ Sent(n, x, e)
  BY LogStays
<1>3. Count(d) \in Nat
  BY <1>1, CountType
<1>4. Placed(n, x, e) /\ Window(Peer(n), x, Tail(r))
  BY DEF Placed, Window, Live
<1> QED
  BY <1>1, <1>2, <1>3, <1>4 DEF Result

\* A step that changes nothing but the timer, which it stops or leaves.
LEMMA Idles ==
  ASSUME NEW n \in Node, NEW d, NEW e, NEW s, NEW r, Setting(n, d, e, s, r), r # << >>,
         NEW x \in Device, x.heard = d.heard, x.state = d.state, x.tx = d.tx, x.sent = d.sent,
         x.timer \in {d.timer, "monitor"}, x.acked = d.acked, x.rx = d.rx, x.rxpdu = d.rxpdu, x.got = d.got,
         Says(n, d, e, x)
  PROVE  Result(n, d, e, s, Tail(r), x)
<1>1. d \in Device /\ d.sent \subseteq x.sent /\ Placed(n, d, e) /\ Buffered(e, d)
  BY DEF Setting, Way
<1>2. Count(x) = Count(d) /\ Heard(Peer(n), e, x) /\ Sent(n, x, e)
  BY LogStays
<1>3. Count(d) \in Nat
  BY <1>1, CountType
<1>4. (Live(x) <=> Live(d)) /\ (Over(x) <=> Over(d))
  BY DEF Live, Over
<1>5. Placed(n, x, e)
  BY <1>1, <1>2, <1>4 DEF Placed, At
<1>6. Window(Peer(n), x, Tail(r))
  BY <1>4, WindowStays
<1>7. Buffered(e, x)
  BY <1>1 DEF Buffered
<1> QED
  BY <1>1, <1>2, <1>3, <1>4, <1>5, <1>6, <1>7 DEF Result

-----------------------------------------------------------------------------
(* What the helpers leave alone *)

SameLog(d, x) ==
  x.heard = d.heard /\ x.sent = d.sent /\ x.ended = d.ended /\ x.provisioned = d.provisioned
SameRx(d, x) == x.acked = d.acked /\ x.rx = d.rx /\ x.rxpdu = d.rxpdu /\ x.got = d.got
SameTx(d, x) == x.state = d.state /\ x.tx = d.tx
Same(d, x) == SameLog(d, x) /\ SameRx(d, x) /\ SameTx(d, x)

\* Nothing before.
LEMMA FirstOut ==
  ASSUME NEW pkts \in Seq(Packet)
  PROVE  << >> \o pkts = pkts
OBVIOUS

LEMMA EmitFields ==
  ASSUME NEW d \in Device, NEW pkts \in Seq(Packet)
  PROVE  LET x == Emit(d, pkts)
         IN  x \in Device /\ Same(d, x) /\ x.timer = d.timer /\ x.out = d.out \o pkts
<1>1. d.out \o pkts \in Seq(Packet)
  BY DEF Device
<1> QED
  BY <1>1 DEF Emit, Device, Same, SameLog, SameRx, SameTx

LEMMA ArmFields ==
  ASSUME NEW d \in Device, NEW t \in Timer
  PROVE  LET x == Arm(d, t)
         IN  x \in Device /\ Same(d, x) /\ x.timer = t /\ x.out = d.out
BY DEF Arm, Device, Same, SameLog, SameRx, SameTx

LEMMA DeletedFields ==
  ASSUME NEW d \in Device, NEW why \in Ending
  PROVE  LET x == Deleted(d, why)
         IN  /\ x \in Device /\ x.state = IDLE /\ x.rxpdu = NONE /\ x.out = d.out
             /\ x.heard = d.heard /\ x.sent = d.sent /\ x.provisioned = d.provisioned
<1>1. Deleted(d, why) \in Device
  BY ResetEvolves DEF Kept
<1> QED
  BY <1>1 DEF Deleted, Zeroed, Device

\* meshx_pb_adv_link_close
LEMMA LinkCloseFields ==
  ASSUME NEW d \in Device, NEW why \in Reason
  PROVE  LET x == LinkClose(d, why)
         IN  /\ d.state <= LINK_OPENING => x = d
             /\ d.state > LINK_OPENING =>
                  /\ x \in Device /\ SameLog(d, x) /\ SameRx(d, x) /\ x.state = LINK_CLOSING
                  /\ x.timer = "retry" /\ x.out = d.out \o <<LinkClosePkt(d.link, WireReason(why))>>
<1> DEFINE k == LinkClosePkt(d.link, WireReason(why))
           f == [d EXCEPT !.state = LINK_CLOSING, !.reason = why, !.retry = 0]
           g == Emit(f, <<k>>)
           x == Arm(g, "retry")
<1>1. k \in Packet
  BY ReasonType, PacketType DEF Device
<1>2. <<k>> \in Seq(Packet)
  BY <1>1
<1>3. d.state \in 0 .. 13
  BY Numbers DEF Device
<1>4. d.state <= LINK_OPENING => LinkClose(d, why) = d
  BY DEF LinkClose
<1>5. d.state > LINK_OPENING => LinkClose(d, why) = x
  BY <1>3, Numbers DEF LinkClose
<1> HIDE DEF k
<1>6. f \in Device /\ SameLog(d, f) /\ SameRx(d, f) /\ f.state = LINK_CLOSING /\ f.out = d.out
  BY StateType DEF Device, SameLog, SameRx
<1> HIDE DEF f
<1>7. g \in Device /\ Same(f, g) /\ g.out = d.out \o <<k>>
  BY <1>2, <1>6, EmitFields
<1> HIDE DEF g
<1>8. x \in Device /\ Same(g, x) /\ x.timer = "retry" /\ x.out = g.out
  BY <1>7, ArmFields DEF Timer
<1> HIDE DEF x
<1> QED
  BY <1>4, <1>5, <1>6, <1>7, <1>8 DEF Same, SameLog, SameRx, SameTx, k

\* meshx_prov_<pdu> and meshx_pb_adv_<pdu>
LEMMA SendPduFields ==
  ASSUME NEW n \in Node, NEW d \in Device, NEW pdu \in PDU
  PROVE  LET x == SendPdu(n, d, pdu)
         IN  /\ ~MaySend(d.state, pdu) => x = d
             /\ MaySend(d.state, pdu) =>
                  /\ x \in Device /\ SameLog(d, x) /\ SameRx(d, x) /\ x.out = d.out
                  /\ x.state = pdu /\ x.tx = NextTn(n, d.tx, pdu) /\ x.timer = "delay_pdu"
<1> DEFINE f == [d EXCEPT !.state = pdu, !.tx = NextTn(n, d.tx, pdu)]
           x == Arm(f, "delay_pdu")
<1>1. NextTn(n, d.tx, pdu) \in Byte
  BY NextTnType DEF Device
<1>2. f \in Device /\ SameLog(d, f) /\ SameRx(d, f) /\ f.out = d.out /\ f.state = pdu /\ f.tx = NextTn(n, d.tx, pdu)
  BY <1>1, StateType DEF Device, SameLog, SameRx
<1>3. MaySend(d.state, pdu) => SendPdu(n, d, pdu) = x
  BY DEF SendPdu
<1>4. ~MaySend(d.state, pdu) => SendPdu(n, d, pdu) = d
  BY DEF SendPdu
<1> HIDE DEF f
<1>5. x \in Device /\ Same(f, x) /\ x.timer = "delay_pdu" /\ x.out = f.out
  BY <1>2, ArmFields DEF Timer
<1> HIDE DEF x
<1> QED
  BY <1>2, <1>3, <1>4, <1>5 DEF Same, SameLog, SameRx, SameTx

\* pb_adv_send_trans
LEMMA EmitPduFields ==
  ASSUME NEW d \in Device, d.state \in PDU
  PROVE  LET x == EmitPdu(d)
         IN  /\ x \in Device /\ SameRx(d, x) /\ SameTx(d, x) /\ x.timer = d.timer
             /\ x.heard = d.heard /\ x.ended = d.ended /\ x.provisioned = d.provisioned
             /\ x.sent = d.sent \cup {<<d.tx, d.state>>}
             /\ \E pkts \in Seq(Packet) :
                  /\ x.out = d.out \o pkts
                  /\ \A j \in DOMAIN pkts :
                       pkts[j].kind = "seg" /\ pkts[j].tn = d.tx /\ pkts[j].pdu = d.state
<1> DEFINE pkts == Segments(d)
           e == Emit(d, pkts)
           x == EmitPdu(d)
<1>1. d.tx \in Byte /\ d.link \in Link
  BY DEF Device
<1>2. LastSeg(d.state) \in 0 .. 2
  BY Numbers DEF LastSeg
<1>3. \A i \in 1 .. LastSeg(d.state) + 1 : SegPkt(d.link, d.tx, d.state, i - 1) \in Packet
  BY <1>1, <1>2, PacketType
<1>4. pkts \in Seq(Packet) /\ DOMAIN pkts = 1 .. LastSeg(d.state) + 1
  BY <1>2, <1>3 DEF Segments
<1>5. \A j \in DOMAIN pkts : pkts[j].kind = "seg" /\ pkts[j].tn = d.tx /\ pkts[j].pdu = d.state
  BY <1>4 DEF Segments, SegPkt
<1> HIDE DEF pkts
<1>6. e \in Device /\ Same(d, e) /\ e.timer = d.timer /\ e.out = d.out \o pkts
  BY <1>4, EmitFields
<1>7. x = [e EXCEPT !.sent = @ \cup {<<d.tx, d.state>>}]
  BY DEF EmitPdu, pkts
<1> HIDE DEF e, x
<1>8. d.sent \cup {<<d.tx, d.state>>} \in SUBSET (Byte \X PDU)
  BY <1>1 DEF Device
<1>9. x \in Device
  BY <1>6, <1>7, <1>8 DEF Device, Same, SameLog
<1>10. /\ SameRx(d, x) /\ SameTx(d, x) /\ x.timer = d.timer
       /\ x.heard = d.heard /\ x.ended = d.ended /\ x.provisioned = d.provisioned
       /\ x.sent = d.sent \cup {<<d.tx, d.state>>} /\ x.out = d.out \o pkts
  BY <1>6, <1>7 DEF Device, Same, SameLog, SameRx, SameTx
<1> QED
  BY <1>4, <1>5, <1>9, <1>10 DEF x

-----------------------------------------------------------------------------
(* The handlers *)

\* What a handler that takes packet p does to the object's log.
Pristine(n, d, p, x) ==
  p.kind # "seg" /\ n = Dev /\ Untouched(d) => Untouched(x) /\ NoReceipt(x.out)
Hears(n, d, x) ==
  \/ x.heard = d.heard /\ (x.ended = d.ended \/ d.state # IDLE \/ (x.ended = NOT_ENDED /\ Count(d) = 0))
  \/ /\ x.heard = Append(d.heard, Line(Peer(n))[Count(d) + 1])
     /\ x.ended = d.ended /\ d.state # IDLE
Log(n, d, p, x) ==
  /\ Hears(n, d, x) /\ Pristine(n, d, p, x)
  /\ x.state # IDLE => x.ended = NOT_ENDED \/ (d.state # IDLE /\ x.ended = d.ended)
  /\ x.provisioned => d.provisioned \/ n # Dev \/ Count(x) = 6
  /\ Opens(x.out) => n = Prov /\ d.state = LINK_OPENING /\ x.sent = {}
  /\ x.state = LINK_OPENING =>
       d.state = LINK_OPENING /\ x.heard = d.heard /\ x.acked = d.acked /\ x.rxpdu = d.rxpdu

\* A handler that hears nothing and does not start the session.
LEMMA Unheard ==
  ASSUME NEW n \in Node, NEW d, NEW p, NEW x, x.heard = d.heard, x.provisioned = d.provisioned,
         d.state = IDLE => x.state = IDLE /\ x.ended = d.ended,
         x.state # IDLE => x.ended = d.ended,
         Opens(x.out) => n = Prov /\ d.state = LINK_OPENING /\ x.sent = {},
         x.state = LINK_OPENING => d.state = LINK_OPENING /\ x.acked = d.acked /\ x.rxpdu = d.rxpdu,
         Pristine(n, d, p, x)
  PROVE  Log(n, d, p, x)
BY DEF Log, Hears

\* Nothing of an object in a session is that of one being opened.
LEMMA OpeningIs ==
  ASSUME ~SendMayFail, NEW n \in Node, NEW d \in Device, Good(n, d)
  PROVE  /\ d.state = LINK_OPENING => n = Prov /\ d.timer = "retry" /\ d.tx = 255
         /\ n = Prov => d.state # LINK_OPENED
         /\ d.state \in 0 .. 13
BY DEF Good, Steady, Timed, Opening, Device, State

\* Nothing to do.
LEMMA StaysResult ==
  ASSUME NEW n \in Node, NEW d, NEW e, NEW s, NEW r, Setting(n, d, e, s, r), r # << >>, NEW p
  PROVE  Result(n, d, e, s, Tail(r), d) /\ Log(n, d, p, d)
<1>1. d \in Device /\ d.out = << >>
  BY DEF Setting
<1>2. Says(n, d, e, d) /\ ~Opens(d.out) /\ NoReceipt(d.out)
  BY <1>1 DEF Says, Opens, NoReceipt
<1>3. Result(n, d, e, s, Tail(r), d)
  BY <1>1, <1>2, Idles
<1>4. Pristine(n, d, p, d)
  BY <1>2 DEF Pristine
<1> QED
  BY <1>2, <1>3, <1>4, Unheard

\* meshx_pb_adv_recv_link_close
LEMMA LinkClosedResult ==
  ASSUME NEW n \in Node, NEW d, NEW e, NEW s, NEW r, Setting(n, d, e, s, r), r # << >>, NEW p,
         NEW why \in Ending
  PROVE  Result(n, d, e, s, Tail(r), LinkClosed(d, why)) /\ Log(n, d, p, LinkClosed(d, why))
<1>1. CASE d.state = IDLE
  BY <1>1, StaysResult DEF LinkClosed
<1>2. CASE d.state # IDLE
  <2> DEFINE x == Deleted(d, why)
  <2>1. d \in Device /\ d.out = << >>
    BY DEF Setting
  <2>2. /\ x \in Device /\ x.state = IDLE /\ x.rxpdu = NONE /\ x.out = << >>
        /\ x.heard = d.heard /\ x.sent = d.sent /\ x.provisioned = d.provisioned
    BY <2>1, DeletedFields
  <2>3. LinkClosed(d, why) = x
    BY <1>2 DEF LinkClosed
  <2> HIDE DEF x
  <2>4. Says(n, d, e, x) /\ ~Opens(x.out) /\ NoReceipt(x.out) /\ Over(x) /\ Buffered(e, x)
    BY <2>2, Numbers DEF Says, Opens, NoReceipt, Over, Buffered
  <2>5. Result(n, d, e, s, Tail(r), x)
    BY <2>2, <2>4, Quits
  <2>6. Pristine(n, d, p, x)
    BY <2>2, <2>4 DEF Pristine, Untouched
  <2>7. Log(n, d, p, x)
    BY <1>2, <2>2, <2>4, <2>6, Numbers, Unheard
  <2> QED
    BY <2>3, <2>5, <2>7
<1> QED
  BY <1>1, <1>2

\* The device's object when it answers a link open, and the cases of one.
Greeting(d, l, a) ==
  [Created(d, a) EXCEPT !.link = l, !.state = LINK_OPENING, !.tx = 127, !.acked = 255, !.rxpdu = NONE]
LEMMA LinkOpenedCases ==
  ASSUME NEW d \in Device, NEW l \in Link, NEW a \in Addrs
  PROVE  /\ d.state > LINK_OPENED => LinkOpened(d, l, a, TRUE) = d
         /\ d.state = LINK_OPENED =>
              LinkOpened(d, l, a, TRUE) = IF d.link = l THEN Emit(d, <<LinkAckPkt(l)>>) ELSE d
         /\ d.state = IDLE => LinkOpened(d, l, a, TRUE) = LinkAck(Greeting(d, l, a), TRUE)
<1> DEFINE c == IF d.state = IDLE THEN Created(d, a) ELSE d
           o(f) == [f EXCEPT !.link = l, !.state = LINK_OPENING, !.tx = 127, !.acked = 255, !.rxpdu = NONE]
           i(f) == IF f.link = l THEN Emit(f, <<LinkAckPkt(l)>>) ELSE f
           k(f) == LinkAck(o(f), TRUE)
<1>1. LinkOpened(d, l, a, TRUE) =
        CASE c.state > LINK_OPENED -> c [] c.state = LINK_OPENED -> i(c) [] OTHER -> k(c)
  BY DEF LinkOpened
<1>2. c.state \in 0 .. 13 /\ (d.state = IDLE => c.state = IDLE)
  <2>1. Created(d, a) \in Device /\ Created(d, a).state = IDLE
    BY ResetEvolves DEF Evolves, Created, Zeroed, Device
  <2> QED
    BY <2>1, Numbers DEF Device
<1>3. c.state > LINK_OPENED => c.state # LINK_OPENED
  BY Numbers
<1>4. d.state # IDLE => c = d
  OBVIOUS
<1>5. d.state = IDLE => c = Created(d, a)
  OBVIOUS
<1> HIDE DEF c, i, k
<1>6. CASE d.state > LINK_OPENED
  <2>1. d.state # IDLE /\ c = d /\ d.state # LINK_OPENED
    BY <1>2, <1>4, <1>6, Numbers
  <2> QED
    BY <1>1, <1>6, <2>1, Numbers
<1>7. CASE d.state = LINK_OPENED
  <2>1. d.state # IDLE /\ c = d /\ ~(d.state > LINK_OPENED)
    BY <1>4, <1>7, Numbers
  <2>2. LinkOpened(d, l, a, TRUE) = i(d)
    BY <1>1, <1>7, <2>1
  <2> QED
    BY <1>7, <2>1, <2>2, Numbers DEF i
<1>8. CASE d.state = IDLE
  <2>1. c = Created(d, a) /\ ~(c.state > LINK_OPENED) /\ c.state # LINK_OPENED
    BY <1>2, <1>5, <1>8, Numbers
  <2>2. LinkOpened(d, l, a, TRUE) = k(Created(d, a))
    BY <1>1, <2>1
  <2>3. k(Created(d, a)) = LinkAck(Greeting(d, l, a), TRUE)
    BY DEF k, Greeting
  <2>4. ~(d.state > LINK_OPENED) /\ d.state # LINK_OPENED
    BY <1>8, Numbers
  <2> QED
    BY <2>2, <2>3, <2>4
<1>9. d.state \in 0 .. 13
  BY Numbers DEF Device
<1>10. CASE d.state = LINK_OPENING
  BY <1>10, Numbers
<1> QED
  BY <1>6, <1>7, <1>8, <1>9, <1>10, Numbers

\* meshx_pb_adv_recv_link_open
LEMMA LinkOpenedResult ==
  ASSUME ~SendMayFail, NEW n \in Node, NEW d, NEW e, NEW s, NEW r, Setting(n, d, e, s, r), r # << >>,
         NEW p, n = Dev, Untouched(d), NoReceipt(s), NEW l \in Link, NEW a \in Addrs
  PROVE  /\ Result(n, d, e, s, Tail(r), LinkOpened(d, l, a, TRUE))
         /\ Log(n, d, p, LinkOpened(d, l, a, TRUE))
<1> DEFINE k == LinkAckPkt(l)
<1>1. d \in Device /\ d.out = << >> /\ d.state \in {0, 2, 13}
  BY Numbers DEF Setting, Untouched
<1>2. k \in Packet /\ k.kind = "link_ack"
  BY PacketType DEF LinkAckPkt
<1>3. <<k>> \in Seq(Packet)
  BY <1>2
<1> HIDE DEF k
<1>4. CASE d.state = LINK_CLOSING
  <2>1. d.state > LINK_OPENED
    BY <1>4, Numbers
  <2>2. LinkOpened(d, l, a, TRUE) = d
    BY <1>1, <2>1, LinkOpenedCases
  <2> QED
    BY <2>2, StaysResult
<1>5. CASE d.state = LINK_OPENED
  <2> DEFINE x == Emit(d, <<k>>)
  <2>1. x \in Device /\ Same(d, x) /\ x.timer = d.timer /\ x.out = <<k>>
    BY <1>1, <1>3, EmitFields, FirstOut
  <2>2. LinkOpened(d, l, a, TRUE) = IF d.link = l THEN x ELSE d
    BY <1>1, <1>5, LinkOpenedCases DEF k
  <2> HIDE DEF x
  <2>3. \A j \in DOMAIN x.out : x.out[j].kind = "link_ack"
    BY <1>2, <2>1
  <2>4. Says(n, d, e, x) /\ ~Opens(x.out) /\ NoReceipt(x.out)
    BY <2>3 DEF Says, Opens, NoReceipt
  <2>5. Result(n, d, e, s, Tail(r), x)
    BY <2>1, <2>4, Idles DEF Same, SameLog, SameRx, SameTx
  <2>6. Pristine(n, d, p, x)
    BY <2>1, <2>4 DEF Pristine, Untouched, Same, SameLog, SameRx, SameTx
  <2>7. Log(n, d, p, x)
    BY <2>1, <2>4, <2>6, Unheard DEF Same, SameLog, SameRx, SameTx
  <2> QED
    BY <2>2, <2>5, <2>7, StaysResult
<1>6. CASE d.state = IDLE
  <2> DEFINE c == Created(d, a)
             o == Greeting(d, l, a)
             f == [o EXCEPT !.state = LINK_OPENED, !.udb = FALSE]
             g == Emit(f, <<k>>)
             x == Arm(g, "monitor")
  <2>1. c \in Device
    BY <1>1, ResetEvolves DEF Evolves
  <2>2. /\ c.heard = << >> /\ c.sent = {} /\ c.ended = NOT_ENDED /\ c.provisioned = d.provisioned
        /\ c.state = IDLE /\ c.out = << >>
    BY <1>1 DEF Created, Zeroed, Device
  <2>3. LinkOpened(d, l, a, TRUE) = LinkAck(o, TRUE)
    BY <1>1, <1>6, LinkOpenedCases
  <2>a. o = [c EXCEPT !.link = l, !.state = LINK_OPENING, !.tx = 127, !.acked = 255, !.rxpdu = NONE]
    BY DEF Greeting
  <2> HIDE DEF c, o
  <2>4. o \in Device
    <3>1. ASSUME NEW st \in State, NEW t \in Byte, NEW u \in Byte
          PROVE  [c EXCEPT !.link = l, !.state = st, !.tx = t, !.acked = u, !.rxpdu = NONE] \in Device
      BY <2>1 DEF Device
    <3>2. 127 \in Byte /\ 255 \in Byte
      BY DEF Byte
    <3> QED
      BY <2>a, <3>1, <3>2, StateType
  <2>5. /\ o.heard = << >> /\ o.sent = {} /\ o.ended = NOT_ENDED /\ o.provisioned = d.provisioned
        /\ o.tx = 127 /\ o.acked = 255 /\ o.rxpdu = NONE /\ o.out = << >> /\ o.link = l
    BY <2>a, <2>1, <2>2 DEF Device
  <2>6. /\ f \in Device /\ f.state = LINK_OPENED
        /\ f.heard = << >> /\ f.sent = {} /\ f.ended = NOT_ENDED /\ f.provisioned = d.provisioned
        /\ f.tx = 127 /\ f.acked = 255 /\ f.rxpdu = NONE /\ f.out = << >> /\ f.link = l
    BY <2>4, <2>5, StateType DEF Device
  <2>7. LinkAck(o, TRUE) = x
    BY <2>5 DEF LinkAck, k
  <2> HIDE DEF f
  <2>8. g \in Device /\ Same(f, g) /\ g.out = <<k>>
    <3>1. f \in Device
      BY <2>6
    <3>2. g \in Device /\ Same(f, g) /\ g.out = f.out \o <<k>>
      BY <1>3, <3>1, EmitFields
    <3> QED
      BY <1>3, <2>6, <3>2, FirstOut
  <2> HIDE DEF g
  <2>9. x \in Device /\ Same(g, x) /\ x.timer = "monitor" /\ x.out = <<k>>
    BY <2>8, ArmFields DEF Timer
  <2> HIDE DEF x
  <2>10. /\ x.state = 2 /\ x.heard = << >> /\ x.sent = {} /\ x.ended = NOT_ENDED
         /\ x.provisioned = d.provisioned /\ x.tx = 127 /\ x.acked = 255 /\ x.rxpdu = NONE
    BY <2>6, <2>8, <2>9, Numbers DEF Same, SameLog, SameRx, SameTx
  <2>11. \A j \in DOMAIN x.out : x.out[j].kind = "link_ack"
    BY <1>2, <2>9
  <2>12. Says(n, d, e, x) /\ ~Opens(x.out) /\ NoReceipt(x.out)
    BY <2>11 DEF Says, Opens, NoReceipt
  <2>13. d.heard = << >> /\ d.sent = {} /\ Count(d) = 0 /\ Count(x) = 0
    BY <2>10 DEF Untouched, Count
  <2>14. Count(e) = 0
    <3>1. Heard(n, d, e) /\ Count(e) \in Nat
      BY CountType DEF Setting, Way
    <3> QED
      BY <2>13, <3>1 DEF Heard, May, Prov, Dev
  <2>15. Heard(Peer(n), e, x)
    <3>1. May(Peer(n), Count(e)) >= 0
      BY <2>14 DEF May, Peer, Prov, Dev
    <3>2. 1 .. Count(x) = {}
      BY <2>13
    <3> QED
      BY <2>13, <3>1, <3>2 DEF Heard, Last
  <2>16. Sent(n, x, e)
    BY <2>10 DEF Sent
  <2>17. Placed(n, x, e)
    <3>1. At(n, x, 0)
      BY <2>9, <2>10, <2>13, Numbers DEF At, Stages, Num, Prov, Dev
    <3>2. 0 \in 0 .. 6 /\ Count(e) <= 0 /\ Ready(e, 0)
      BY <2>14 DEF Ready
    <3> QED
      BY <3>1, <3>2 DEF Placed
  <2>18. Buffered(e, x)
    BY <2>9, <2>10 DEF Buffered
  <2>19. Window(Peer(n), x, Tail(r))
    BY <2>10, <2>13 DEF Window, Peer, Prov, Dev
  <2>20. Result(n, d, e, s, Tail(r), x)
    BY <2>9, <2>12, <2>13, <2>14, <2>15, <2>16, <2>17, <2>18, <2>19 DEF Result
  <2>21. Log(n, d, p, x)
    BY <2>10, <2>12, <2>13, Numbers DEF Log, Hears, Pristine, Untouched
  <2> QED
    BY <2>3, <2>7, <2>20, <2>21
<1> QED
  BY <1>1, <1>4, <1>5, <1>6, Numbers

\* meshx_pb_adv_recv_link_ack
LEMMA LinkAckedResult ==
  ASSUME ~SendMayFail, NEW n \in Node, NEW d, NEW e, NEW s, NEW r, Setting(n, d, e, s, r), r # << >>,
         NEW p, d.state = LINK_OPENING => d.heard = << >> /\ d.acked = 0 /\ d.rxpdu = NONE
  PROVE  Result(n, d, e, s, Tail(r), LinkAcked(n, d)) /\ Log(n, d, p, LinkAcked(n, d))
<1> DEFINE f == [d EXCEPT !.retry = 0, !.state = LINK_OPENED, !.udb = FALSE]
           g == Arm(f, "monitor")
           x == SendPdu(n, g, INVITE)
<1>1. d \in Device /\ e \in Device /\ d.out = << >> /\ Good(n, d) /\ Numbered(d) /\ Heard(n, d, e)
  BY DEF Setting, Way
<1>2. /\ d.state = LINK_OPENING => n = Prov /\ d.tx = 255
      /\ n = Prov => d.state # LINK_OPENED
  BY <1>1, OpeningIs
<1>3. CASE d.state \notin {LINK_OPENING, LINK_OPENED}
  BY <1>3, StaysResult DEF LinkAcked
<1>4. f \in Device /\ SameLog(d, f) /\ SameRx(d, f) /\ f.tx = d.tx /\ f.state = LINK_OPENED /\ f.out = << >>
  BY <1>1, StateType DEF Device, SameLog, SameRx
<1>5. d.state \in {LINK_OPENING, LINK_OPENED} => LinkAcked(n, d) = IF n = Prov THEN x ELSE g
  BY DEF LinkAcked
<1> HIDE DEF f
<1>6. g \in Device /\ Same(f, g) /\ g.timer = "monitor" /\ g.out = f.out
  BY <1>4, ArmFields DEF Timer
<1> HIDE DEF g
<1>7. /\ SameLog(d, g) /\ SameRx(d, g) /\ g.tx = d.tx /\ g.state = 2 /\ g.out = << >>
  BY <1>4, <1>6, Numbers DEF Same, SameLog, SameRx, SameTx
<1>8. CASE d.state = LINK_OPENED
  <2>1. n = Dev /\ LinkAcked(n, d) = g
    BY <1>2, <1>5, <1>8 DEF Node
  <2>2. Says(n, d, e, g) /\ ~Opens(g.out) /\ NoReceipt(g.out)
    BY <1>7 DEF Says, Opens, NoReceipt
  <2>3. g.state = d.state
    BY <1>7, <1>8, Numbers
  <2>4. Result(n, d, e, s, Tail(r), g)
    BY <1>6, <1>7, <2>2, <2>3, Idles DEF SameLog, SameRx
  <2>5. Pristine(n, d, p, g)
    BY <1>7, <2>2, <2>3 DEF Pristine, Untouched, SameLog, SameRx
  <2>6. Log(n, d, p, g)
    BY <1>7, <1>8, <2>2, <2>3, <2>5, Numbers, Unheard DEF SameLog, SameRx
  <2> QED
    BY <2>1, <2>4, <2>6
<1>9. CASE d.state = LINK_OPENING
  <2>1. n = Prov /\ LinkAcked(n, d) = x /\ d.tx = 255
    BY <1>2, <1>5, <1>9
  <2>2. MaySend(g.state, INVITE)
    BY <1>7, Numbers DEF MaySend
  <2>3. NextTn(Prov, 255, INVITE) = 0
    BY Numbers DEF NextTn, ProvNextTn
  <2>4. /\ x \in Device /\ SameLog(g, x) /\ SameRx(g, x) /\ x.out = g.out
        /\ x.state = INVITE /\ x.tx = NextTn(n, g.tx, INVITE) /\ x.timer = "delay_pdu"
    BY <1>6, <2>2, StateType, SendPduFields
  <2> HIDE DEF x
  <2>5. /\ x.state = 3 /\ x.tx = 0 /\ x.heard = << >> /\ x.acked = 0 /\ x.rxpdu = NONE
        /\ x.sent = d.sent /\ x.out = << >> /\ x.ended = d.ended /\ x.provisioned = d.provisioned
    BY <1>7, <1>9, <2>1, <2>3, <2>4, Numbers DEF SameLog, SameRx
  <2>6. d.sent = {} /\ d.heard = << >> /\ Count(d) = 0 /\ Count(x) = 0
    BY <1>1, <1>9, <2>5 DEF Numbered, Count
  <2>7. Count(e) \in Nat /\ Count(e) <= 1
    BY <1>1, <2>1, <2>6, CountType DEF Heard, May
  <2>8. Says(n, d, e, x) /\ ~Opens(x.out)
    BY <2>5 DEF Says, Opens
  <2>9. Heard(Peer(n), e, x) /\ Sent(n, x, e)
    BY <2>4, <2>5, <2>6, LogStays
  <2>10. Placed(n, x, e)
    <3>1. At(n, x, 1)
      BY <2>1, <2>5, <2>6, Numbers, Lines DEF At, Stages, Num
    <3>2. 1 \in 0 .. 6 /\ Count(e) <= 1 /\ Ready(e, 1)
      BY <2>7 DEF Ready
    <3> QED
      BY <3>1, <3>2 DEF Placed
  <2>11. Buffered(e, x)
    BY <2>4, <2>5 DEF Buffered
  <2>12. Window(Peer(n), x, Tail(r))
    BY <2>1, <2>5, <2>6 DEF Window, Peer, Prov, Dev
  <2>13. ~Over(d)
    BY <1>9, Numbers DEF Over
  <2>14. Result(n, d, e, s, Tail(r), x)
    BY <2>4, <2>5, <2>6, <2>8, <2>9, <2>10, <2>11, <2>12, <2>13 DEF Result
  <2>15. Pristine(n, d, p, x)
    BY <2>1 DEF Pristine, Prov, Dev
  <2>16. Log(n, d, p, x)
    BY <1>9, <2>5, <2>6, <2>8, <2>15, Numbers, Unheard
  <2> QED
    BY <2>1, <2>14, <2>16
<1> QED
  BY <1>3, <1>8, <1>9

\* The link is closed.
LEMMA ClosesResult ==
  ASSUME NEW n \in Node, NEW d, NEW e, NEW s, NEW r, Setting(n, d, e, s, r), r # << >>, NEW p,
         d.state >= LINK_OPENED, NEW f \in Device, Same(d, f), f.out = << >>, NEW why \in Reason
  PROVE  Result(n, d, e, s, Tail(r), LinkClose(f, why)) /\ Log(n, d, p, LinkClose(f, why))
<1> DEFINE x == LinkClose(f, why)
           k == LinkClosePkt(f.link, WireReason(why))
<1>1. d \in Device /\ Buffered(e, d) /\ f.state = d.state
  BY DEF Setting, Way, Same, SameTx
<1>2. d.state \in 0 .. 13 /\ f.state > LINK_OPENING
  BY <1>1, Numbers DEF Device
<1>3. /\ x \in Device /\ SameLog(f, x) /\ SameRx(f, x) /\ x.state = LINK_CLOSING
      /\ x.timer = "retry" /\ x.out = f.out \o <<k>>
  BY <1>2, LinkCloseFields
<1>4. k \in Packet /\ k.kind = "close"
  BY ReasonType, PacketType DEF LinkClosePkt, Device
<1> HIDE DEF x, k
<1>5. x.out = <<k>>
  <2>1. <<k>> \in Seq(Packet)
    BY <1>4
  <2> QED
    BY <1>3, <2>1, FirstOut
<1>6. \A j \in DOMAIN x.out : x.out[j].kind = "close"
  BY <1>4, <1>5
<1>7. Says(n, d, e, x) /\ ~Opens(x.out) /\ NoReceipt(x.out)
  BY <1>6 DEF Says, Opens, NoReceipt
<1>8. SameLog(d, x) /\ SameRx(d, x)
  BY <1>3 DEF Same, SameLog, SameRx
<1>9. Over(x) /\ x.state = 13 /\ d.state # IDLE
  BY <1>3, Numbers DEF Over
<1>10. Buffered(e, x)
  BY <1>1, <1>3, <1>8, <1>9 DEF Buffered, SameRx
<1>11. Result(n, d, e, s, Tail(r), x)
  BY <1>3, <1>7, <1>8, <1>9, <1>10, Quits DEF SameLog
<1>12. Pristine(n, d, p, x)
  BY <1>3, <1>7, <1>8 DEF Pristine, Untouched, SameLog, SameRx
<1>13. Log(n, d, p, x)
  BY <1>7, <1>8, <1>9, <1>12, Numbers, Unheard DEF SameLog
<1> QED
  BY <1>11, <1>13 DEF x

\* meshx_pb_adv_handle_link_loss
LEMMA LinkLossResult ==
  ASSUME NEW n \in Node, NEW d, NEW e, NEW s, NEW r, Setting(n, d, e, s, r), r # << >>, NEW p,
         d.state # IDLE
  PROVE  Result(n, d, e, s, Tail(r), LinkLoss(d)) /\ Log(n, d, p, LinkLoss(d))
<1> DEFINE f == [d EXCEPT !.armed = FALSE]
           x == LinkLoss(d)
<1>1. d \in Device /\ d.out = << >> /\ d.state \in 0 .. 13 /\ Buffered(e, d)
  BY Numbers DEF Setting, Way, Device
<1>2. f \in Device /\ Same(d, f) /\ f.timer = d.timer /\ f.out = << >>
  BY <1>1 DEF Device, Same, SameLog, SameRx, SameTx
<1>3. x = LinkClose(f, LINK_LOSS)
  BY DEF LinkLoss
<1> HIDE DEF f
<1>4. LINK_LOSS \in Reason
  BY ReasonType
<1>5. CASE d.state = LINK_OPENING
  <2>1. x = f
    <3>1. f.state <= LINK_OPENING
      BY <1>2, <1>5, Numbers DEF Same, SameTx
    <3> QED
      BY <1>3, <3>1 DEF LinkClose
  <2> HIDE DEF x
  <2>2. Says(n, d, e, x) /\ ~Opens(x.out) /\ NoReceipt(x.out)
    BY <1>2, <2>1 DEF Says, Opens, NoReceipt
  <2>3. Result(n, d, e, s, Tail(r), x)
    BY <1>2, <2>1, <2>2, Idles DEF Same, SameLog, SameRx, SameTx
  <2>4. Pristine(n, d, p, x)
    BY <1>2, <2>1, <2>2 DEF Pristine, Untouched, Same, SameLog, SameRx, SameTx
  <2>5. Log(n, d, p, x)
    BY <1>2, <2>1, <2>2, <2>4, Unheard DEF Same, SameLog, SameRx, SameTx
  <2> QED
    BY <2>3, <2>5 DEF x
<1>6. CASE d.state # LINK_OPENING
  <2>1. d.state >= LINK_OPENED
    BY <1>1, <1>6, Numbers
  <2>2. f \in Device /\ Same(d, f) /\ f.out = << >>
    BY <1>2
  <2> QED
    BY <1>3, <1>4, <2>1, <2>2, ClosesResult DEF x
<1> QED
  BY <1>5, <1>6

\* A PDU is sent, first or again, and perhaps the link closed.
LEMMA SendsResult ==
  ASSUME NEW n \in Node, NEW d, NEW e, NEW s, NEW r, Setting(n, d, e, s, r), r # << >>, NEW p,
         d.state \in PDU, d.timer \in {"delay_pdu", "retry"}, NEW x \in Device,
         SameRx(d, x), x.heard = d.heard, x.ended = d.ended, x.provisioned = d.provisioned,
         x.sent = d.sent \cup {<<d.tx, d.state>>},
         (x.state = d.state /\ x.tx = d.tx /\ x.timer = "retry") \/ (x.state = LINK_CLOSING /\ x.timer = "retry"),
         \A j \in DOMAIN x.out :
           \/ x.out[j].kind = "seg" /\ x.out[j].tn = d.tx /\ x.out[j].pdu = d.state
           \/ x.out[j].kind = "close"
  PROVE  Result(n, d, e, s, Tail(r), x) /\ Log(n, d, p, x)
<1>1. d \in Device /\ d.state \in 3 .. 12 /\ Buffered(e, d) /\ Placed(n, d, e) /\ d.sent \subseteq x.sent
  BY Numbers DEF Setting, Way
<1>2. Says(n, d, e, x) /\ ~Opens(x.out)
  BY <1>1, Numbers DEF Says, Opens
<1>3. d.state >= LINK_OPENED /\ d.state # LINK_OPENING /\ d.state # IDLE
  BY <1>1, Numbers
<1>4. Buffered(e, x)
  BY <1>1, <1>3 DEF Buffered, SameRx
<1>5. Count(x) = Count(d) /\ Heard(Peer(n), e, x) /\ Sent(n, x, e) /\ Count(d) \in Nat
  BY <1>1, LogStays, CountType
<1>6. Result(n, d, e, s, Tail(r), x)
  <2>1. CASE x.state = LINK_CLOSING
    <3>1. Over(x)
      BY <2>1 DEF Over
    <3> QED
      BY <1>2, <1>4, <3>1, Quits
  <2>2. CASE x.state = d.state /\ x.tx = d.tx
    <3>1. (Live(x) <=> Live(d)) /\ (Over(x) <=> Over(d))
      BY <2>2 DEF Live, Over
    <3>2. Placed(n, x, e)
      <4>1. SUFFICES ASSUME Live(x) PROVE \E i \in 0 .. 6 : At(n, x, i) /\ Count(e) <= i /\ Ready(e, i)
        BY DEF Placed
      <4>2. PICK i \in 0 .. 6 : At(n, d, i) /\ Count(e) <= i /\ Ready(e, i)
        BY <1>1, <3>1, <4>1 DEF Placed
      <4>3. At(n, x, i)
        BY <1>5, <2>2, <4>2 DEF At
      <4> QED
        BY <4>2, <4>3
    <3>3. Window(Peer(n), x, Tail(r))
      BY <3>1, WindowStays DEF SameRx
    <3> QED
      BY <1>1, <1>2, <1>4, <1>5, <3>1, <3>2, <3>3 DEF Result
  <2> QED
    BY <2>1, <2>2
<1>7. Pristine(n, d, p, x)
  BY <1>1, Numbers DEF Pristine, Untouched
<1>8. x.state # LINK_OPENING
  BY <1>3, Numbers
<1> QED
  BY <1>2, <1>3, <1>6, <1>7, <1>8, Unheard

\* meshx_pb_adv_handle_delay, PDU due.
LEMMA FirstSendResult ==
  ASSUME NEW n \in Node, NEW d, NEW e, NEW s, NEW r, Setting(n, d, e, s, r), r # << >>, NEW p,
         d.state \in PDU, d.timer = "delay_pdu"
  PROVE  Result(n, d, e, s, Tail(r), FirstSend(d)) /\ Log(n, d, p, FirstSend(d))
<1> DEFINE f == EmitPdu(d)
           g == [f EXCEPT !.retry = 0]
           x == Arm(g, "retry")
<1>1. d \in Device /\ d.out = << >>
  BY DEF Setting
<1>2. /\ f \in Device /\ SameRx(d, f) /\ SameTx(d, f)
      /\ f.heard = d.heard /\ f.ended = d.ended /\ f.provisioned = d.provisioned
      /\ f.sent = d.sent \cup {<<d.tx, d.state>>}
  BY <1>1, EmitPduFields
<1>3. PICK pkts \in Seq(Packet) :
        /\ f.out = d.out \o pkts
        /\ \A j \in DOMAIN pkts : pkts[j].kind = "seg" /\ pkts[j].tn = d.tx /\ pkts[j].pdu = d.state
  BY <1>1, EmitPduFields
<1>4. f.out = pkts
  BY <1>1, <1>3, FirstOut
<1>5. FirstSend(d) = x
  BY DEF FirstSend
<1> HIDE DEF f
<1>6. /\ g \in Device /\ Same(f, g) /\ g.out = f.out
  BY <1>2 DEF Device, Same, SameLog, SameRx, SameTx
<1> HIDE DEF g
<1>7. x \in Device /\ Same(g, x) /\ x.timer = "retry" /\ x.out = g.out
  BY <1>6, ArmFields DEF Timer
<1> HIDE DEF x
<1>8. /\ SameRx(d, x) /\ x.heard = d.heard /\ x.ended = d.ended /\ x.provisioned = d.provisioned
      /\ x.sent = d.sent \cup {<<d.tx, d.state>>} /\ x.state = d.state /\ x.tx = d.tx /\ x.out = pkts
  BY <1>2, <1>4, <1>6, <1>7 DEF Same, SameLog, SameRx, SameTx
<1> QED
  BY <1>3, <1>5, <1>7, <1>8, SendsResult

\* A retry is counted.
LEMMA CountedFields ==
  ASSUME NEW d \in Device, NEW x, x = [d EXCEPT !.retry = @ + 1]
  PROVE  x \in Device /\ Same(d, x) /\ x.timer = d.timer /\ x.out = d.out
<1>1. x \in Device
  BY CountFields
<1> QED
  BY <1>1 DEF Device, Same, SameLog, SameRx, SameTx

\* meshx_pb_adv_handle_retry, of the link open.
LEMMA RetryOpenResult ==
  ASSUME ~SendMayFail, NEW n \in Node, NEW d, NEW e, NEW s, NEW r, Setting(n, d, e, s, r), r # << >>,
         NEW p, d.state = LINK_OPENING
  PROVE  Result(n, d, e, s, Tail(r), RetryOpen(d)) /\ Log(n, d, p, RetryOpen(d))
<1> DEFINE k == LinkOpenPkt(d.link, Dev)
           f == Emit(d, <<k>>)
           g == [f EXCEPT !.retry = @ + 1]
           h == Deleted(f, OPEN_TIMEOUT)
<1>1. /\ d \in Device /\ d.out = << >> /\ Good(n, d) /\ Numbered(d)
      /\ d.link \in Link
  BY DEF Setting, Device
<1>2. n = Prov /\ d.sent = {}
  BY <1>1, OpeningIs DEF Numbered
<1>3. k \in Packet /\ k.kind = "open"
  BY <1>1, PacketType DEF LinkOpenPkt
<1>4. RetryOpen(d) \in {g, h}
  BY DEF RetryOpen
<1> HIDE DEF k
<1>5. <<k>> \in Seq(Packet)
  BY <1>3
<1>6. f \in Device /\ Same(d, f) /\ f.timer = d.timer /\ f.out = d.out \o <<k>>
  BY <1>1, <1>5, EmitFields
<1>7. f.out = <<k>>
  BY <1>1, <1>5, <1>6, FirstOut
<1> HIDE DEF f
<1>8. g \in Device /\ Same(f, g) /\ g.timer = f.timer /\ g.out = f.out
  BY <1>6, CountedFields
<1> HIDE DEF g
<1>9. /\ h \in Device /\ h.state = IDLE /\ h.rxpdu = NONE /\ h.out = f.out
      /\ h.heard = f.heard /\ h.sent = f.sent /\ h.provisioned = f.provisioned
  BY <1>6, ReasonType, DeletedFields
<1> HIDE DEF h
<1>10. \A j \in DOMAIN <<k>> : <<k>>[j].kind = "open"
  BY <1>3
<1>11. Says(n, d, e, g) /\ Says(n, d, e, h)
  BY <1>7, <1>8, <1>9, <1>10 DEF Says
<1>12. Result(n, d, e, s, Tail(r), g)
  BY <1>6, <1>8, <1>11, Idles DEF Same, SameLog, SameRx, SameTx
<1>13. Result(n, d, e, s, Tail(r), h)
  <2>1. Over(h) /\ Buffered(e, h)
    BY <1>9, Numbers DEF Over, Buffered
  <2>2. h.heard = d.heard /\ h.sent = d.sent
    BY <1>6, <1>9 DEF Same, SameLog
  <2> QED
    BY <1>9, <1>11, <2>1, <2>2, Quits
<1>14. Pristine(n, d, p, g) /\ Pristine(n, d, p, h)
  BY <1>2 DEF Pristine, Prov, Dev
<1>15. Log(n, d, p, g)
  BY <1>2, <1>6, <1>8, <1>14, Numbers, Unheard DEF Same, SameLog, SameRx, SameTx
<1>16. Log(n, d, p, h)
  BY <1>2, <1>6, <1>9, <1>14, Numbers, Unheard DEF Same, SameLog, SameRx, SameTx
<1> QED
  BY <1>4, <1>12, <1>13, <1>15, <1>16

\* meshx_pb_adv_handle_retry, of the link close.
LEMMA RetryCloseResult ==
  ASSUME NEW n \in Node, NEW d, NEW e, NEW s, NEW r, Setting(n, d, e, s, r), r # << >>,
         NEW p, d.state = LINK_CLOSING
  PROVE  Result(n, d, e, s, Tail(r), RetryClose(d)) /\ Log(n, d, p, RetryClose(d))
<1> DEFINE k == LinkClosePkt(d.link, WireReason(d.reason))
           f == Emit(d, <<k>>)
           g == [f EXCEPT !.retry = @ + 1]
           h == Deleted(f, d.reason)
<1>1. /\ d \in Device /\ d.out = << >> /\ d.link \in Link /\ d.reason \in Reason
  BY DEF Setting, Device
<1>2. k \in Packet /\ k.kind = "close"
  BY <1>1, ReasonType, PacketType DEF LinkClosePkt
<1>3. RetryClose(d) \in {g, h}
  BY DEF RetryClose
<1> HIDE DEF k
<1>4. <<k>> \in Seq(Packet)
  BY <1>2
<1>5. f \in Device /\ Same(d, f) /\ f.timer = d.timer /\ f.out = d.out \o <<k>>
  BY <1>1, <1>4, EmitFields
<1>6. f.out = <<k>>
  BY <1>1, <1>4, <1>5, FirstOut
<1> HIDE DEF f
<1>7. g \in Device /\ Same(f, g) /\ g.timer = f.timer /\ g.out = f.out
  BY <1>5, CountedFields
<1> HIDE DEF g
<1>8. /\ h \in Device /\ h.state = IDLE /\ h.rxpdu = NONE /\ h.out = f.out
      /\ h.heard = f.heard /\ h.sent = f.sent /\ h.provisioned = f.provisioned
  BY <1>1, <1>5, ReasonType, DeletedFields
<1> HIDE DEF h
<1>9. \A j \in DOMAIN <<k>> : <<k>>[j].kind = "close"
  BY <1>2
<1>10. Says(n, d, e, g) /\ Says(n, d, e, h)
  BY <1>6, <1>7, <1>8, <1>9 DEF Says
<1>11. /\ ~Opens(g.out) /\ ~Opens(h.out) /\ NoReceipt(g.out) /\ NoReceipt(h.out)
  BY <1>6, <1>7, <1>8, <1>9 DEF Opens, NoReceipt
<1>12. Result(n, d, e, s, Tail(r), g)
  BY <1>5, <1>7, <1>10, Idles DEF Same, SameLog, SameRx, SameTx
<1>13. h.heard = d.heard /\ h.sent = d.sent /\ h.provisioned = d.provisioned
  BY <1>5, <1>8 DEF Same, SameLog
<1>14. Result(n, d, e, s, Tail(r), h)
  <2>1. Over(h) /\ Buffered(e, h)
    BY <1>8, Numbers DEF Over, Buffered
  <2> QED
    BY <1>8, <1>10, <1>13, <2>1, Quits
<1>15. SameLog(d, g) /\ SameRx(d, g) /\ SameTx(d, g)
  BY <1>5, <1>7 DEF Same, SameLog, SameRx, SameTx
<1>16. Pristine(n, d, p, g) /\ Pristine(n, d, p, h)
  BY <1>8, <1>11, <1>13, <1>15 DEF Pristine, Untouched, SameLog, SameRx, SameTx
<1>17. Log(n, d, p, g)
  BY <1>11, <1>15, <1>16, Numbers, Unheard DEF SameLog, SameRx, SameTx
<1>18. Log(n, d, p, h)
  BY <1>8, <1>11, <1>13, <1>16, Numbers, Unheard
<1> QED
  BY <1>3, <1>12, <1>14, <1>17, <1>18

\* meshx_pb_adv_handle_retry, of a PDU.
LEMMA RetryPduResult ==
  ASSUME NEW n \in Node, NEW d, NEW e, NEW s, NEW r, Setting(n, d, e, s, r), r # << >>,
         NEW p, d.state \in INVITE .. COMPLETE, d.timer = "retry"
  PROVE  Result(n, d, e, s, Tail(r), RetryPdu(d)) /\ Log(n, d, p, RetryPdu(d))
<1> DEFINE f == EmitPdu(d)
           g == [f EXCEPT !.retry = @ + 1]
           h == LinkClose(g, TIMEOUT)
           k == LinkClosePkt(g.link, WireReason(TIMEOUT))
<1>1. d \in Device /\ d.out = << >> /\ d.state \in PDU /\ d.state > LINK_OPENING
  BY Numbers DEF Setting
<1>2. /\ f \in Device /\ SameRx(d, f) /\ SameTx(d, f) /\ f.timer = d.timer
      /\ f.heard = d.heard /\ f.ended = d.ended /\ f.provisioned = d.provisioned
      /\ f.sent = d.sent \cup {<<d.tx, d.state>>}
  BY <1>1, EmitPduFields
<1>3. PICK pkts \in Seq(Packet) :
        /\ f.out = d.out \o pkts
        /\ \A j \in DOMAIN pkts : pkts[j].kind = "seg" /\ pkts[j].tn = d.tx /\ pkts[j].pdu = d.state
  BY <1>1, EmitPduFields
<1>4. f.out = pkts
  BY <1>1, <1>3, FirstOut
<1>5. RetryPdu(d) \in {g, h}
  BY DEF RetryPdu
<1> HIDE DEF f
<1>6. g \in Device /\ Same(f, g) /\ g.timer = f.timer /\ g.out = f.out
  BY <1>2, CountedFields
<1> HIDE DEF g
<1>7. k \in Packet /\ k.kind = "close"
  BY <1>6, ReasonType, PacketType DEF LinkClosePkt, Device
<1>8. /\ SameRx(d, g) /\ g.heard = d.heard /\ g.ended = d.ended /\ g.provisioned = d.provisioned
      /\ g.sent = d.sent \cup {<<d.tx, d.state>>} /\ g.state = d.state /\ g.tx = d.tx /\ g.out = pkts
      /\ g.timer = "retry"
  BY <1>2, <1>4, <1>6 DEF Same, SameLog, SameRx, SameTx
<1>9. Result(n, d, e, s, Tail(r), g) /\ Log(n, d, p, g)
  BY <1>1, <1>3, <1>6, <1>8, SendsResult
<1>10. /\ h \in Device /\ SameLog(g, h) /\ SameRx(g, h) /\ h.state = LINK_CLOSING
       /\ h.timer = "retry" /\ h.out = g.out \o <<k>>
  BY <1>1, <1>6, <1>8, ReasonType, LinkCloseFields
<1> HIDE DEF h, k
<1>11. \A j \in DOMAIN h.out :
         \/ h.out[j].kind = "seg" /\ h.out[j].tn = d.tx /\ h.out[j].pdu = d.state
         \/ h.out[j].kind = "close"
  <2>1. \A j \in DOMAIN h.out : (j \in DOMAIN pkts /\ h.out[j] = pkts[j]) \/ h.out[j] = k
    BY <1>3, <1>7, <1>8, <1>10
  <2> QED
    BY <1>3, <1>7, <2>1
<1>12. /\ SameRx(d, h) /\ h.heard = d.heard /\ h.ended = d.ended /\ h.provisioned = d.provisioned
       /\ h.sent = d.sent \cup {<<d.tx, d.state>>}
  BY <1>8, <1>10 DEF SameLog, SameRx
<1>13. Result(n, d, e, s, Tail(r), h) /\ Log(n, d, p, h)
  BY <1>1, <1>10, <1>11, <1>12, SendsResult
<1> QED
  BY <1>5, <1>9, <1>13

\* meshx_pb_adv_handle_retry
LEMMA RetryResult ==
  ASSUME ~SendMayFail, NEW n \in Node, NEW d, NEW e, NEW s, NEW r, Setting(n, d, e, s, r), r # << >>,
         NEW p, d.timer = "retry"
  PROVE  Result(n, d, e, s, Tail(r), Retry(d)) /\ Log(n, d, p, Retry(d))
<1>1. CASE d.state = LINK_OPENING
  <2>1. d.state # LINK_CLOSING /\ d.state \notin INVITE .. COMPLETE
    BY <1>1, Numbers
  <2> QED
    BY <1>1, <2>1, RetryOpenResult DEF Retry
<1>2. CASE d.state = LINK_CLOSING
  <2>1. d.state # LINK_OPENING /\ d.state \notin INVITE .. COMPLETE
    BY <1>2, Numbers
  <2> QED
    BY <1>2, <2>1, RetryCloseResult DEF Retry
<1>3. CASE d.state \in INVITE .. COMPLETE
  <2>1. d.state # LINK_OPENING /\ d.state # LINK_CLOSING
    BY <1>3, Numbers
  <2> QED
    BY <1>3, <2>1, RetryPduResult DEF Retry
<1>4. CASE d.state # LINK_OPENING /\ d.state # LINK_CLOSING /\ d.state \notin INVITE .. COMPLETE
  BY <1>4, StaysResult DEF Retry
<1> QED
  BY <1>1, <1>2, <1>3, <1>4

\* meshx_pb_adv_recv_trans_ack
LEMMA TransAckedResult ==
  ASSUME ~SendMayFail, NEW n \in Node, NEW d, NEW e, NEW s, NEW r, Setting(n, d, e, s, r), r # << >>,
         NEW p, NEW tn, n = Prov => tn # 255, Receipt(n, d, e, tn)
  PROVE  Result(n, d, e, s, Tail(r), TransAcked(n, d, tn)) /\ Log(n, d, p, TransAcked(n, d, tn))
<1> DEFINE f == [d EXCEPT !.retry = 0]
           g == Arm(f, "monitor")
           x == SendPdu(n, g, PUBLIC_KEY)
<1>1. d \in Device /\ d.out = << >> /\ Good(n, d) /\ e \in Device /\ Placed(n, d, e)
  BY DEF Setting, Way
<1>2. CASE d.state = IDLE \/ d.tx # tn
  BY <1>2, StaysResult DEF TransAcked
<1>3. CASE ~(d.state = IDLE \/ d.tx # tn)
  <2>1. d.state \in 0 .. 13 /\ d.state # LINK_OPENING /\ d.state # IDLE /\ d.tx = tn
    BY <1>1, <1>3, OpeningIs
  <2>2. d.state >= LINK_OPENED
    BY <2>1, Numbers
  <2>3. f \in Device /\ Same(d, f) /\ f.out = << >>
    BY <1>1 DEF Device, Same, SameLog, SameRx, SameTx
  <2>4. TransAcked(n, d, tn) = CASE g.state = FAILED -> LinkClose(g, FAIL)
                                 [] g.state = COMPLETE -> LinkClose(g, SUCCESS)
                                 [] g.state = START /\ n = Prov -> x
                                 [] OTHER -> g
    BY <1>3 DEF TransAcked
  <2> HIDE DEF f
  <2>5. g \in Device /\ Same(f, g) /\ g.timer = "monitor" /\ g.out = << >>
    BY <2>3, ArmFields DEF Timer
  <2> HIDE DEF g
  <2>6. Same(d, g)
    BY <2>3, <2>5 DEF Same, SameLog, SameRx, SameTx
  <2>7. g.state = d.state /\ g.tx = d.tx /\ SameLog(d, g) /\ SameRx(d, g)
    BY <2>6 DEF Same, SameTx
  <2>8. FAIL \in Reason /\ SUCCESS \in Reason
    BY ReasonType
  <2>9. CASE g.state = FAILED
    <3>1. TransAcked(n, d, tn) = LinkClose(g, FAIL)
      <4>1. g.state # COMPLETE /\ g.state # START
        BY <2>9, Numbers
      <4> QED
        BY <2>4, <2>9, <4>1
    <3> QED
      BY <2>2, <2>5, <2>6, <2>8, <3>1, ClosesResult
  <2>10. CASE g.state = COMPLETE
    <3>1. TransAcked(n, d, tn) = LinkClose(g, SUCCESS)
      <4>1. g.state # FAILED /\ g.state # START
        BY <2>10, Numbers
      <4> QED
        BY <2>4, <2>10, <4>1
    <3> QED
      BY <2>2, <2>5, <2>6, <2>8, <3>1, ClosesResult
  <2>11. CASE g.state = START /\ n = Prov
    <3>1. TransAcked(n, d, tn) = x
      <4>1. g.state # COMPLETE /\ g.state # FAILED
        BY <2>11, Numbers
      <4> QED
        BY <2>4, <2>11, <4>1
    <3>2. MaySend(g.state, PUBLIC_KEY)
      BY <2>11, Numbers DEF MaySend
    <3>3. PUBLIC_KEY \in PDU
      BY Numbers
    <3>4. /\ x \in Device /\ SameLog(g, x) /\ SameRx(g, x) /\ x.out = g.out
          /\ x.state = PUBLIC_KEY /\ x.tx = NextTn(n, g.tx, PUBLIC_KEY) /\ x.timer = "delay_pdu"
      BY <2>5, <3>2, <3>3, SendPduFields
    <3> HIDE DEF x
    <3>5. SameLog(d, x) /\ SameRx(d, x) /\ x.out = << >> /\ x.state = 6 /\ x.tx = NextTn(n, d.tx, PUBLIC_KEY)
      BY <2>5, <2>7, <3>4, Numbers DEF SameLog, SameRx
    <3>6. Live(d) /\ Live(x) /\ ~Over(d)
      BY <2>7, <2>11, <3>5, Numbers DEF Live, Over
    <3>7. PICK i \in 0 .. 6 : At(n, d, i) /\ Count(e) <= i /\ Ready(e, i)
      BY <1>1, <3>6 DEF Placed
    <3>8. Count(d) \in Nat /\ Count(e) \in Nat
      BY <1>1, CountType
    <3>9. <<Count(d), i, d.state>> \in Stages(n) /\ d.tx = Num(n, i) /\ d.state = 5
      BY <2>7, <2>11, <3>7, Numbers DEF At
    <3>10. Count(d) = 1 /\ i = 2 /\ d.tx = 1
      <4>1. Count(d) = 1 /\ i = 2
        BY <2>11, <3>8, <3>9, StageOf
      <4> QED
        BY <2>11, <3>9, <4>1 DEF Num
    <3>11. x.tx = 2
      <4>1. NextTn(Prov, 1, PUBLIC_KEY) = 2
        BY Numbers DEF NextTn, ProvNextTn
      <4> QED
        BY <2>11, <3>5, <3>10, <4>1
    <3>12. Over(e) \/ Count(e) >= 2
      <4>1. SUFFICES ASSUME ~Over(e) PROVE Count(e) >= 2
        OBVIOUS
      <4>2. PICK b \in 1 .. Count(e) : tn = Num(n, b)
        BY <4>1 DEF Receipt
      <4>3. b = 2
        <5>1. d.tx = Num(n, b) /\ d.tx = Num(n, 2)
          BY <2>1, <3>9, <3>10, <4>2
        <5>2. b \in Nat
          BY <3>8
        <5> QED
          BY <5>1, <5>2, NumOf
      <4> QED
        BY <3>8, <4>2, <4>3
    <3>13. Count(x) = Count(d) /\ Heard(Peer(n), e, x) /\ Sent(n, x, e)
      BY <3>4, <3>5, LogStays DEF SameLog
    <3>14. Placed(n, x, e)
      <4>1. At(n, x, 3)
        BY <2>11, <3>5, <3>10, <3>11, <3>13, Numbers, Lines DEF At, Stages, Num
      <4>2. 3 \in 0 .. 6 /\ Count(e) <= 3 /\ Ready(e, 3)
        BY <3>7, <3>8, <3>10, <3>12 DEF Ready
      <4> QED
        BY <4>1, <4>2 DEF Placed
    <3>15. Window(Peer(n), x, Tail(r)) /\ Buffered(e, x)
      BY <2>2, <3>4, <3>5, <3>6, WindowStays DEF SameLog, SameRx
    <3>16. Says(n, d, e, x) /\ ~Opens(x.out)
      BY <3>5 DEF Says, Opens
    <3>17. Result(n, d, e, s, Tail(r), x)
      BY <3>4, <3>5, <3>6, <3>8, <3>13, <3>14, <3>15, <3>16 DEF Result, SameLog
    <3>18. Pristine(n, d, p, x)
      BY <2>11 DEF Pristine, Prov, Dev
    <3>19. Log(n, d, p, x)
      BY <2>1, <3>5, <3>16, <3>18, Numbers, Unheard DEF SameLog
    <3> QED
      BY <3>1, <3>17, <3>19
  <2>12. CASE g.state # FAILED /\ g.state # COMPLETE /\ ~(g.state = START /\ n = Prov)
    <3>1. TransAcked(n, d, tn) = g
      BY <2>4, <2>12
    <3>2. Says(n, d, e, g) /\ ~Opens(g.out) /\ NoReceipt(g.out)
      BY <2>5 DEF Says, Opens, NoReceipt
    <3>3. Result(n, d, e, s, Tail(r), g)
      BY <2>5, <2>7, <3>2, Idles DEF SameLog, SameRx
    <3>4. Pristine(n, d, p, g)
      BY <2>7, <3>2 DEF Pristine, Untouched, SameLog, SameRx
    <3>5. Log(n, d, p, g)
      BY <2>1, <2>7, <3>2, <3>4, Unheard DEF SameLog, SameRx
    <3> QED
      BY <3>1, <3>3, <3>5
  <2> QED
    BY <2>9, <2>10, <2>11, <2>12
<1> QED
  BY <1>2, <1>3

\* The segment at the head of the queue: nothing behind it comes from a PDU
\* before its own.
LEMMA SegmentHead ==
  ASSUME NEW n \in Node, NEW d, NEW e, NEW s, NEW r, Setting(n, d, e, s, r), r # << >>,
         Head(r).kind = "seg", d.state >= LINK_OPENED
  PROVE  LET p == Head(r)
             t == Tail(r)
         IN  /\ <<p.tn, p.pdu>> \in e.sent /\ p.tn \in Byte /\ p.pdu \in PDU /\ p.seg \in 0 .. 2
             /\ Over(d) \/ Live(d)
             /\ Live(d) => (Count(d) # 0 => p.tn >= d.acked) /\ (d.rxpdu # NONE => p.tn >= d.rx)
             /\ \A j \in DOMAIN t : t[j].kind = "seg" =>
                  /\ t[j].tn >= p.tn /\ t[j].tn \in Byte
                  /\ Live(d) => (Count(d) # 0 => t[j].tn >= d.acked) /\ (d.rxpdu # NONE => t[j].tn >= d.rx)
<1> DEFINE p == Head(r)
           t == Tail(r)
<1>1. r \in Seq(Message) /\ Stream(e, r) /\ Window(Peer(n), d, r)
  BY DEF Setting, Way
<1>2. /\ t \in Seq(Message) /\ 1 \in DOMAIN r /\ p = r[1]
      /\ \A j \in DOMAIN t : j + 1 \in DOMAIN r /\ j + 1 > 1 /\ t[j] = r[j + 1]
  BY <1>1, QueueTail
<1>3. ASSUME NEW m \in Message, m.kind = "seg" PROVE m.tn \in Byte /\ m.pdu \in PDU /\ m.seg \in 0 .. 2
  BY <1>3 DEF Message, Packet
<1>4. p \in Message /\ \A j \in DOMAIN t : t[j] \in Message
  BY <1>1, <1>2
<1> HIDE DEF p, t
<1>5. p.kind = "seg"
  BY DEF p
<1>6. <<p.tn, p.pdu>> \in e.sent
  BY <1>1, <1>2, <1>5 DEF Stream
<1>7. Over(d) \/ Live(d)
  BY Numbers DEF Over, Live
<1>8. Live(d) => (Count(d) # 0 => p.tn >= d.acked) /\ (d.rxpdu # NONE => p.tn >= d.rx)
  BY <1>1, <1>2, <1>5 DEF Window
<1>9. ASSUME NEW j \in DOMAIN t, t[j].kind = "seg"
      PROVE  /\ t[j].tn >= p.tn /\ t[j].tn \in Byte
             /\ Live(d) => (Count(d) # 0 => t[j].tn >= d.acked) /\ (d.rxpdu # NONE => t[j].tn >= d.rx)
  <2>1. j + 1 \in DOMAIN r /\ 1 < j + 1 /\ t[j] = r[j + 1]
    BY <1>2
  <2>2. p.tn <= t[j].tn
    BY <1>1, <1>2, <1>5, <1>9, <2>1 DEF Stream
  <2>3. t[j].tn \in Byte /\ p.tn \in Byte
    BY <1>3, <1>4, <1>5, <1>9
  <2>4. t[j].tn >= p.tn
    BY <2>2, <2>3 DEF Byte
  <2>5. Live(d) => (Count(d) # 0 => t[j].tn >= d.acked) /\ (d.rxpdu # NONE => t[j].tn >= d.rx)
    BY <1>1, <1>9, <2>1 DEF Window
  <2> QED
    BY <2>3, <2>4, <2>5
<1> QED
  BY <1>3, <1>4, <1>5, <1>6, <1>7, <1>8, <1>9 DEF p, t

\* A PDU that comes again is acknowledged again.
LEMMA ReAckResult ==
  ASSUME NEW n \in Node, NEW d, NEW e, NEW s, NEW r, Setting(n, d, e, s, r), r # << >>,
         Head(r).kind = "seg", d.state >= LINK_OPENED, d.acked = Head(r).tn,
         ValidPeerTn(n, Head(r).tn)
  PROVE  LET x == Emit(d, <<TransAckPkt(d.link, d.acked)>>)
         IN  Result(n, d, e, s, Tail(r), x) /\ Log(n, d, Head(r), x)
<1> DEFINE k == TransAckPkt(d.link, d.acked)
           x == Emit(d, <<k>>)
           p == Head(r)
<1>1. d \in Device /\ d.out = << >> /\ d.link \in Link /\ d.acked \in Byte /\ Window(Peer(n), d, r)
  BY DEF Setting, Way, Device
<1>2. k \in Packet /\ k.kind = "trans_ack" /\ k.tn = d.acked
  BY <1>1, PacketType DEF TransAckPkt
<1>3. <<p.tn, p.pdu>> \in e.sent /\ (Over(d) \/ Live(d))
  BY SegmentHead
<1>4. ValidPeerTn(n, d.acked) /\ <<d.acked, p.pdu>> \in e.sent /\ p.kind = "seg"
  BY <1>3
<1> HIDE DEF k, p
<1>5. <<k>> \in Seq(Packet)
  BY <1>2
<1>6. x \in Device /\ Same(d, x) /\ x.timer = d.timer /\ x.out = <<k>>
  BY <1>1, <1>5, EmitFields, FirstOut
<1> HIDE DEF x
<1>7. \A j \in DOMAIN x.out : x.out[j].kind = "trans_ack" /\ x.out[j].tn = d.acked
  BY <1>2, <1>6
<1>8. SameLog(d, x) /\ SameRx(d, x) /\ x.state = d.state /\ x.tx = d.tx
  BY <1>6 DEF Same, SameTx
<1>9. Receipt(Peer(n), e, x, d.acked)
  <2>1. \E g \in e.sent : g[1] = d.acked
    BY <1>4
  <2>2. SUFFICES ASSUME Live(d) PROVE \E i \in 1 .. Count(x) : d.acked = Num(Peer(n), i)
    BY <1>3, <1>8, <2>1 DEF Receipt, Over
  <2>3. Count(x) = Count(d) /\ Count(d) \in Nat
    BY <1>1, <1>8, CountType DEF Count, SameLog
  <2>4. Count(d) # 0
    <3>1. SUFFICES ASSUME Count(d) = 0 PROVE FALSE
      OBVIOUS
    <3>2. d.acked = IF Peer(n) = Prov THEN 255 ELSE 0
      BY <1>1, <2>2, <3>1 DEF Window
    <3> QED
      BY <1>4, <3>2 DEF ValidPeerTn, Peer, Node, Prov, Dev
  <2>5. d.acked = Num(Peer(n), Count(d))
    BY <1>1, <2>2, <2>4 DEF Window
  <2> QED
    BY <2>3, <2>4, <2>5
<1>10. Says(n, d, e, x) /\ ~Opens(x.out)
  BY <1>7, <1>9 DEF Says, Opens
<1>11. Result(n, d, e, s, Tail(r), x)
  BY <1>6, <1>8, <1>10, Idles DEF SameLog, SameRx
<1>12. Pristine(n, d, p, x)
  BY <1>4 DEF Pristine
<1>13. Log(n, d, p, x)
  BY <1>8, <1>10, <1>12, Numbers, Unheard DEF SameLog, SameRx
<1> QED
  BY <1>11, <1>13 DEF x, k, p

\* Segments of one PDU, put together.
LEMMA IfCompleteFields ==
  ASSUME NEW f \in Device, \A g \in f.got : g[2] = f.rxpdu
  PROVE  LET x == IfComplete(f)
         IN  x \in Device /\ Same(f, x) /\ x.timer \in {f.timer, "delay_ack"} /\ x.out = f.out
<1> DEFINE h == Arm(f, "delay_ack")
<1>1. IfComplete(f) \in {f, h}
  BY DEF IfComplete, Reassembled
<1>2. h \in Device /\ Same(f, h) /\ h.timer = "delay_ack" /\ h.out = f.out
  BY ArmFields DEF Timer
<1> HIDE DEF h
<1>3. Same(f, f)
  BY DEF Same, SameLog, SameRx, SameTx
<1> QED
  BY <1>1, <1>2, <1>3

\* A segment is taken.
LEMMA TakesResult ==
  ASSUME NEW n \in Node, NEW d, NEW e, NEW s, NEW r, Setting(n, d, e, s, r), r # << >>,
         Head(r).kind = "seg", d.state >= LINK_OPENED, d.acked # Head(r).tn,
         NEW f \in Device, SameLog(d, f), SameTx(d, f), f.acked = d.acked, f.timer = d.timer, f.out = << >>,
         f.rx = Head(r).tn, f.rxpdu # NONE, <<f.rx, f.rxpdu>> \in e.sent, \A g \in f.got : g[2] = f.rxpdu
  PROVE  Result(n, d, e, s, Tail(r), IfComplete(f)) /\ Log(n, d, Head(r), IfComplete(f))
<1> DEFINE x == IfComplete(f)
           p == Head(r)
           t == Tail(r)
<1>1. d \in Device /\ Placed(n, d, e) /\ Window(Peer(n), d, r) /\ d.acked \in Byte
  BY DEF Setting, Way, Device
<1>2. x \in Device /\ Same(f, x) /\ x.timer \in {f.timer, "delay_ack"} /\ x.out = << >>
  BY IfCompleteFields
<1>3. /\ p.tn \in Byte
      /\ Live(d) => (Count(d) # 0 => p.tn >= d.acked)
      /\ \A j \in DOMAIN t : t[j].kind = "seg" =>
           t[j].tn >= p.tn /\ (Live(d) => (Count(d) # 0 => t[j].tn >= d.acked))
  BY SegmentHead
<1>4. p.kind = "seg" /\ d.acked # p.tn /\ f.rx = p.tn
  OBVIOUS
<1> HIDE DEF x, p, t
<1>5. /\ SameLog(d, x) /\ x.state = d.state /\ x.tx = d.tx /\ x.acked = d.acked /\ x.rx = p.tn
      /\ x.rxpdu # NONE /\ <<x.rx, x.rxpdu>> \in e.sent /\ \A g \in x.got : g[2] = x.rxpdu
      /\ x.timer \in {d.timer, "delay_ack"}
  BY <1>2, <1>4 DEF Same, SameLog, SameRx, SameTx
<1>6. Count(x) = Count(d) /\ Heard(Peer(n), e, x) /\ Sent(n, x, e) /\ Count(d) \in Nat
  BY <1>1, <1>2, <1>5, LogStays, CountType DEF SameLog
<1>7. (Live(x) <=> Live(d)) /\ (Over(x) <=> Over(d))
  BY <1>5 DEF Live, Over
<1>8. Placed(n, x, e)
  BY <1>1, <1>5, <1>6, <1>7 DEF Placed, At
<1>9. Buffered(e, x)
  BY <1>5 DEF Buffered
<1>10. Window(Peer(n), x, t)
  <2>1. SUFFICES ASSUME Live(d) PROVE Window(Peer(n), x, t)
    BY <1>7 DEF Window
  <2>2. \A j \in DOMAIN t : t[j].kind = "seg" =>
           (Count(x) # 0 => t[j].tn >= x.acked) /\ (x.rxpdu # NONE => t[j].tn >= x.rx)
    BY <1>3, <1>5, <1>6, <2>1
  <2>3. Count(x) # 0 => x.rx > x.acked
    <3>1. Count(d) # 0 => p.tn >= d.acked /\ p.tn # d.acked
      BY <1>3, <1>4, <2>1
    <3>2. \A b, c \in Byte : b >= c /\ b # c => b > c
      BY DEF Byte
    <3>3. Count(d) # 0 => p.tn > d.acked
      BY <1>1, <1>3, <3>1, <3>2
    <3> QED
      BY <1>5, <1>6, <3>3
  <2> QED
    BY <1>1, <1>5, <1>6, <2>1, <2>2, <2>3 DEF Window
<1>11. Says(n, d, e, x) /\ ~Opens(x.out)
  BY <1>2 DEF Says, Opens
<1>12. Result(n, d, e, s, t, x)
  BY <1>2, <1>5, <1>6, <1>7, <1>8, <1>9, <1>10, <1>11 DEF Result, SameLog
<1>13. Pristine(n, d, p, x)
  BY <1>4 DEF Pristine
<1>14. Log(n, d, p, x)
  <2>1. d.state # IDLE /\ x.state # LINK_OPENING
    BY <1>5, Numbers
  <2> QED
    BY <1>5, <1>11, <1>13, <2>1, Unheard DEF SameLog
<1> QED
  BY <1>12, <1>14 DEF x, p, t

\* meshx_pb_adv_recv_trans_start
LEMMA TransStartResult ==
  ASSUME NEW n \in Node, NEW d, NEW e, NEW s, NEW r, Setting(n, d, e, s, r), r # << >>,
         Head(r).kind = "seg", ValidPeerTn(n, Head(r).tn)
  PROVE  /\ Result(n, d, e, s, Tail(r), TransStart(d, Head(r)))
         /\ Log(n, d, Head(r), TransStart(d, Head(r)))
<1> DEFINE p == Head(r)
           f == [d EXCEPT !.rxpdu = p.pdu, !.rx = p.tn, !.got = {<<0, p.pdu>>}]
<1>1. d \in Device /\ d.out = << >>
  BY DEF Setting
<1>2. CASE d.state < LINK_OPENED \/ (d.acked # p.tn /\ d.rxpdu # NONE)
  BY <1>2, StaysResult DEF TransStart
<1>3. CASE ~(d.state < LINK_OPENED) /\ d.acked = p.tn
  <2>1. d.state >= LINK_OPENED
    BY <1>1, <1>3, Numbers DEF Device
  <2>2. TransStart(d, p) = Emit(d, <<TransAckPkt(d.link, d.acked)>>)
    BY <1>3 DEF TransStart
  <2> QED
    BY <1>3, <2>1, <2>2, ReAckResult
<1>4. CASE ~(d.state < LINK_OPENED) /\ d.acked # p.tn /\ d.rxpdu = NONE
  <2>1. d.state >= LINK_OPENED
    BY <1>1, <1>4, Numbers DEF Device
  <2>2. TransStart(d, p) = IfComplete(f)
    BY <1>4 DEF TransStart
  <2>3. <<p.tn, p.pdu>> \in e.sent /\ p.tn \in Byte /\ p.pdu \in PDU
    BY <2>1, SegmentHead
  <2>4. p.pdu # NONE /\ {<<0, p.pdu>>} \in SUBSET ((0 .. 2) \X PDU)
    BY <2>3, Numbers
  <2>5. f \in Device
    BY <1>1, <2>3, <2>4 DEF Device
  <2>6. /\ SameLog(d, f) /\ SameTx(d, f) /\ f.acked = d.acked /\ f.timer = d.timer /\ f.out = << >>
        /\ f.rx = p.tn /\ f.rxpdu = p.pdu /\ f.got = {<<0, p.pdu>>}
    BY <1>1 DEF Device, SameLog, SameTx
  <2> HIDE DEF f
  <2>7. \A g \in f.got : g[2] = f.rxpdu
    BY <2>6
  <2>8. Result(n, d, e, s, Tail(r), IfComplete(f)) /\ Log(n, d, Head(r), IfComplete(f))
    BY <1>4, <2>1, <2>3, <2>4, <2>5, <2>6, <2>7, TakesResult
  <2> QED
    BY <2>2, <2>8
<1> QED
  BY <1>2, <1>3, <1>4

\* meshx_pb_adv_recv_trans_continue
LEMMA TransContinueResult ==
  ASSUME NEW n \in Node, NEW d, NEW e, NEW s, NEW r, Setting(n, d, e, s, r), r # << >>,
         Head(r).kind = "seg", ValidPeerTn(n, Head(r).tn)
  PROVE  /\ Result(n, d, e, s, Tail(r), TransContinue(d, Head(r)))
         /\ Log(n, d, Head(r), TransContinue(d, Head(r)))
<1> DEFINE p == Head(r)
           f == [d EXCEPT !.got = @ \cup {<<p.seg, p.pdu>>}]
<1>1. d \in Device /\ d.out = << >> /\ Buffered(e, d) /\ Numbered(e)
  BY DEF Setting, Way
<1>2. CASE d.state < LINK_OPENED \/ (d.acked # p.tn /\ ~Fits(d, p))
  BY <1>2, StaysResult DEF TransContinue
<1>3. CASE ~(d.state < LINK_OPENED) /\ d.acked = p.tn
  <2>1. d.state >= LINK_OPENED
    BY <1>1, <1>3, Numbers DEF Device
  <2>2. TransContinue(d, p) = Emit(d, <<TransAckPkt(d.link, d.acked)>>)
    BY <1>3 DEF TransContinue
  <2> QED
    BY <1>3, <2>1, <2>2, ReAckResult
<1>4. CASE ~(d.state < LINK_OPENED) /\ d.acked # p.tn /\ Fits(d, p)
  <2>1. d.state >= LINK_OPENED /\ d.rx = p.tn /\ d.rxpdu # NONE
    BY <1>1, <1>4, Numbers DEF Device, Fits
  <2>2. TransContinue(d, p) = IfComplete(f)
    BY <1>4 DEF TransContinue
  <2>3. <<p.tn, p.pdu>> \in e.sent /\ p.pdu \in PDU /\ p.seg \in 0 .. 2
    BY <2>1, SegmentHead
  <2>4. <<d.rx, d.rxpdu>> \in e.sent /\ \A g \in d.got : g[2] = d.rxpdu
    BY <1>1, <2>1 DEF Buffered
  <2>5. p.pdu = d.rxpdu
    BY <1>1, <2>1, <2>3, <2>4 DEF Numbered
  <2>6. d.got \cup {<<p.seg, p.pdu>>} \in SUBSET ((0 .. 2) \X PDU)
    BY <1>1, <2>3 DEF Device
  <2>7. f \in Device
    BY <1>1, <2>6 DEF Device
  <2>8. /\ SameLog(d, f) /\ SameTx(d, f) /\ f.acked = d.acked /\ f.timer = d.timer /\ f.out = << >>
        /\ f.rx = d.rx /\ f.rxpdu = d.rxpdu /\ f.got = d.got \cup {<<p.seg, p.pdu>>}
    BY <1>1 DEF Device, SameLog, SameTx
  <2> HIDE DEF f
  <2>9. \A g \in f.got : g[2] = f.rxpdu
    BY <2>4, <2>5, <2>8
  <2>10. f.rx = Head(r).tn /\ f.rxpdu # NONE /\ <<f.rx, f.rxpdu>> \in e.sent
    BY <2>1, <2>4, <2>8
  <2>11. Result(n, d, e, s, Tail(r), IfComplete(f)) /\ Log(n, d, Head(r), IfComplete(f))
    BY <1>4, <2>1, <2>7, <2>8, <2>9, <2>10, TakesResult
  <2> QED
    BY <2>2, <2>11
<1> QED
  BY <1>2, <1>3, <1>4

\* A PDU is acknowledged and the session given up.
LEMMA AckQuits ==
  ASSUME NEW n \in Node, NEW d, NEW e, NEW s, NEW r, Setting(n, d, e, s, r), r # << >>, NEW p,
         d.rxpdu # NONE, <<d.rx, d.rxpdu>> \in e.sent, d.state # IDLE,
         NEW x \in Device, SameLog(d, x), Over(x), x.state # IDLE, x.rxpdu = NONE, x.timer # "delay_ack",
         \A j \in DOMAIN x.out : x.out[j].kind = "trans_ack" /\ x.out[j].tn = d.rx
  PROVE  Result(n, d, e, s, Tail(r), x) /\ Log(n, d, p, x)
<1>1. Receipt(Peer(n), e, x, d.rx)
  <2>1. \E g \in e.sent : g[1] = d.rx
    <3>1. <<d.rx, d.rxpdu>>[1] = d.rx
      OBVIOUS
    <3> QED
      BY <3>1
  <2> QED
    BY <2>1 DEF Receipt
<1>2. Says(n, d, e, x) /\ ~Opens(x.out)
  BY <1>1 DEF Says, Opens
<1>3. Buffered(e, x)
  BY DEF Buffered
<1>4. Result(n, d, e, s, Tail(r), x)
  BY <1>2, <1>3, Quits DEF SameLog
<1>5. Pristine(n, d, p, x)
  BY DEF Pristine, Untouched
<1>6. x.state # LINK_OPENING
  BY Numbers DEF Over
<1>7. Log(n, d, p, x)
  BY <1>2, <1>5, <1>6, Unheard DEF SameLog
<1> QED
  BY <1>4, <1>7

\* A PDU is acknowledged, heard and perhaps answered.
LEMMA HearsResult ==
  ASSUME NEW n \in Node, NEW d, NEW e, NEW s, NEW r, Setting(n, d, e, s, r), r # << >>, NEW p,
         d.rxpdu # NONE, Live(d), NEW i \in 0 .. 6, Count(e) <= i,
         d.rx = Num(Peer(n), Count(d) + 1), Entry(Peer(n), Count(d) + 1) \in e.sent,
         Count(d) + 1 <= May(Peer(n), Count(e)), Count(d) + 1 <= Last(Peer(n)),
         NEW x \in Device, x.heard = Append(d.heard, Line(Peer(n))[Count(d) + 1]),
         x.sent = d.sent, x.ended = d.ended,
         x.provisioned => d.provisioned \/ n # Dev \/ Count(d) + 1 = 6,
         x.acked = d.rx, x.rxpdu = NONE, x.timer # "delay_ack",
         NEW k \in {i, i + 1}, At(n, x, k), k <= 6, n = Prov /\ Count(d) = 0 => k = 2,
         \A j \in DOMAIN x.out : x.out[j].kind = "trans_ack" /\ x.out[j].tn = d.rx
  PROVE  Result(n, d, e, s, Tail(r), x) /\ Log(n, d, p, x)
<1> DEFINE m == Peer(n)
           c == Count(d)
           b == Count(e)
           t == Tail(r)
<1>1. /\ d \in Device /\ e \in Device /\ r \in Seq(Message)
      /\ Heard(m, e, d) /\ Sent(n, d, e) /\ Window(m, d, r)
  BY DEF Setting, Way
<1>2. c \in Nat /\ b \in Nat /\ d.heard \in Seq(PDU) /\ c = Len(d.heard) /\ m \in Node
  BY <1>1, CountType, Peers DEF Count
<1>3. /\ d.rx = Num(m, c + 1) /\ Entry(m, c + 1) \in e.sent /\ c + 1 <= May(m, b) /\ c + 1 <= Last(m)
      /\ x.heard = Append(d.heard, Line(m)[c + 1]) /\ b <= i
      /\ x.provisioned => d.provisioned \/ n # Dev \/ c + 1 = 6
      /\ n = Prov /\ c = 0 => k = 2
  OBVIOUS
<1>4. \A j \in DOMAIN t : j + 1 \in DOMAIN r /\ t[j] = r[j + 1]
  BY <1>1, QueueTail
<1>5. \A j \in DOMAIN t : t[j].kind = "seg" => t[j].tn >= d.rx
  BY <1>1, <1>4 DEF Window
<1>6. c + 1 <= 6
  BY <1>2, <1>3 DEF Last
<1> HIDE DEF m, c, b, t
<1>7. Count(x) = c + 1
  BY <1>2, <1>3 DEF Count
<1>8. Heard(m, e, x)
  <2>1. ASSUME NEW j \in 1 .. c + 1 PROVE x.heard[j] = Line(m)[j] /\ Entry(m, j) \in e.sent
    <3>1. CASE j = c + 1
      BY <1>2, <1>3, <3>1
    <3>2. CASE j # c + 1
      <4>1. j \in 1 .. c /\ x.heard[j] = d.heard[j]
        BY <1>2, <1>3, <3>2
      <4>2. \A l \in 1 .. c : d.heard[l] = Line(m)[l] /\ Entry(m, l) \in e.sent
        BY <1>1 DEF Heard, c
      <4> QED
        BY <4>1, <4>2
    <3> QED
      BY <3>1, <3>2
  <2> QED
    BY <1>3, <1>7, <2>1 DEF Heard, b
<1>9. Sent(n, x, e)
  <2>1. May(n, c) \in Nat /\ May(n, c + 1) \in Nat /\ May(n, c) <= May(n, c + 1)
    <3>1. c + 1 \in Nat /\ c <= c + 1
      BY <1>2
    <3> QED
      BY <1>2, <1>6, <3>1, MayGrows
  <2>2. \A j \in 1 .. May(n, c) : j \in 1 .. May(n, c + 1)
    BY <2>1
  <2> QED
    BY <1>1, <1>7, <2>2 DEF Sent, c
<1>10. <<c + 1, k, x.state>> \in Stages(n) /\ x.state >= 2
  <2>1. <<c + 1, k, x.state>> \in Stages(n)
    BY <1>7 DEF At
  <2> QED
    BY <1>2, <2>1, StageOf
<1>11. Placed(n, x, e)
  <2>1. k <= b + 1
    BY <1>2, <1>3, <1>10, StageBound DEF m
  <2>2. b <= k /\ k \in 0 .. 6
    BY <1>2, <1>3
  <2>3. Count(e) <= k /\ Ready(e, k)
    BY <2>1, <2>2 DEF Ready, b
  <2> QED
    BY <2>2, <2>3 DEF Placed
<1>12. Buffered(e, x)
  BY DEF Buffered
<1>13. Window(m, x, t)
  BY <1>2, <1>3, <1>5, <1>7 DEF Window
<1>14. Receipt(m, e, x, d.rx)
  <2>1. \E g \in e.sent : g[1] = d.rx
    <3>1. Entry(m, c + 1)[1] = d.rx
      BY <1>3 DEF Entry
    <3> QED
      BY <1>3, <3>1
  <2>2. c + 1 \in 1 .. Count(x)
    BY <1>2, <1>7
  <2> QED
    BY <1>3, <2>1, <2>2 DEF Receipt
<1>15. Says(n, d, e, x) /\ ~Opens(x.out)
  BY <1>14 DEF Says, Opens, m
<1>16. ~Over(d) /\ d.state # IDLE
  BY DEF Live, Over
<1>17. d.sent \subseteq x.sent /\ Count(d) <= Count(x)
  BY <1>2, <1>7 DEF c
<1>18. Result(n, d, e, s, t, x)
  BY <1>8, <1>9, <1>11, <1>12, <1>13, <1>15, <1>16, <1>17 DEF Result, m
<1>19. Hears(n, d, x)
  BY <1>3, <1>16 DEF Hears, m, c
<1>20. Pristine(n, d, p, x)
  BY DEF Pristine, Untouched
<1>21. x.state # LINK_OPENING
  BY <1>10, Numbers
<1>22. Log(n, d, p, x)
  BY <1>3, <1>7, <1>15, <1>16, <1>19, <1>20, <1>21 DEF Log
<1> QED
  BY <1>18, <1>22 DEF t

\* meshx_prov_pdu_process, the acceptance.
LEMMA AcceptFields ==
  ASSUME NEW d \in Device, NEW pdu \in PDU
  PROVE  LET x == Accept(d, pdu)
         IN  /\ x \in Device /\ SameRx(d, x) /\ x.state = pdu /\ x.tx = d.tx /\ x.sent = d.sent
             /\ x.ended = d.ended /\ x.timer = d.timer /\ x.out = d.out
             /\ x.provisioned = (d.provisioned \/ pdu = DATA)
             /\ x.heard = IF pdu = FAILED THEN d.heard ELSE Append(d.heard, pdu)
<1> DEFINE h == IF pdu = FAILED THEN d.heard ELSE Append(d.heard, pdu)
           v == d.provisioned \/ pdu = DATA
           x == Accept(d, pdu)
<1>1. h \in Seq(PDU) /\ v \in BOOLEAN /\ pdu \in State
  BY Numbers DEF Device
<1>2. x = [d EXCEPT !.state = pdu, !.heard = h, !.provisioned = v]
  BY DEF Accept
<1> HIDE DEF h, v, x
<1>3. x \in Device
  BY <1>1, <1>2 DEF Device
<1>4. /\ SameRx(d, x) /\ x.state = pdu /\ x.tx = d.tx /\ x.sent = d.sent
      /\ x.ended = d.ended /\ x.timer = d.timer /\ x.out = d.out /\ x.heard = h
  BY <1>2 DEF Device, SameRx
<1>5. x.provisioned = v
  BY <1>2 DEF Device
<1> QED
  BY <1>3, <1>4, <1>5 DEF h, v, x

\* What a live node has put together is the next PDU of its peer's line.
LEMMA BufferIs ==
  ASSUME NEW n \in Node, NEW d, NEW e, NEW s, NEW r, Setting(n, d, e, s, r), Live(d),
         d.rxpdu \notin {NONE, FAILED}
  PROVE  LET m == Peer(n)
             c == Count(d)
         IN  /\ d.rx = Num(m, c + 1) /\ d.rxpdu = Line(m)[c + 1] /\ Entry(m, c + 1) \in e.sent
             /\ c + 1 <= May(m, Count(e)) /\ c + 1 <= Last(m)
<1> DEFINE m == Peer(n)
           c == Count(d)
           b == Count(e)
<1>1. d \in Device /\ e \in Device /\ Heard(m, e, d) /\ Sent(m, e, d) /\ Window(m, d, r) /\ Buffered(e, d)
  BY DEF Setting, Way
<1>2. c \in Nat /\ b \in Nat /\ m \in Node /\ b <= Last(Peer(m))
  <2>1. Heard(n, d, e)
    BY DEF Setting, Way
  <2> QED
    BY <1>1, <2>1, CountType, Peers DEF Heard
<1>3. d.state >= LINK_OPENED /\ ~Over(d)
  BY <1>1, Numbers DEF Live, Over, Device
<1>4. <<d.rx, d.rxpdu>> \in e.sent
  BY <1>1, <1>3 DEF Buffered
<1>5. PICK j \in 1 .. May(m, b) : <<d.rx, d.rxpdu>> = Entry(m, j) /\ Ready(d, j)
  <2>1. <<d.rx, d.rxpdu>>[2] # FAILED
    OBVIOUS
  <2> QED
    BY <1>1, <1>4, <2>1 DEF Sent
<1>6. j <= c + 1
  BY <1>3, <1>5 DEF Ready
<1>7. d.rx = Num(m, j) /\ d.rxpdu = Line(m)[j]
  BY <1>5 DEF Entry
<1>8. May(m, b) \in Nat /\ May(m, b) <= Last(m)
  <2>1. b <= 6
    BY <1>2 DEF Last
  <2> QED
    BY <1>2, <2>1 DEF May, Last, Peer, Node, Prov, Dev
<1>9. c # 0 => d.rx > Num(m, c)
  BY <1>1 DEF Window
<1> HIDE DEF m, c, b
<1>10. j = c + 1
  <2>1. j \in Nat /\ j >= 1
    BY <1>8
  <2>2. CASE c = 0
    BY <1>6, <2>1, <2>2
  <2>3. CASE c # 0
    <3>1. Num(m, c) < Num(m, j)
      BY <1>2, <1>7, <1>9, <2>1, <2>3 DEF Num
    <3>2. c < j
      BY <1>2, <2>1, <3>1, NumOf
    <3> QED
      BY <1>2, <1>6, <2>1, <3>2
  <2> QED
    BY <2>2, <2>3
<1>11. j <= Last(m) /\ j <= May(m, b) /\ Entry(m, j) \in e.sent
  <2>1. j <= May(m, b) /\ j \in Nat /\ May(m, b) \in Nat /\ Last(m) \in Nat
    BY <1>8 DEF Last
  <2>2. j <= Last(m)
    BY <1>8, <2>1
  <2> QED
    BY <1>4, <1>5, <2>1, <2>2
<1> QED
  BY <1>7, <1>10, <1>11 DEF m, c, b

\* meshx_pb_adv_handle_delay, up to the processing of the PDU.
Acked(d) ==
  Arm([[Emit(d, <<TransAckPkt(d.link, d.rx)>>) EXCEPT !.acked = d.rx] EXCEPT !.rxpdu = NONE], "monitor")
LEMMA AckedFields ==
  ASSUME NEW d \in Device, d.out = << >>
  PROVE  LET b == Acked(d)
         IN  /\ b \in Device /\ SameLog(d, b) /\ SameTx(d, b) /\ b.acked = d.rx /\ b.rxpdu = NONE
             /\ b.timer = "monitor" /\ b.out \in Seq(Packet)
             /\ \A j \in DOMAIN b.out : b.out[j].kind = "trans_ack" /\ b.out[j].tn = d.rx
<1> DEFINE k == TransAckPkt(d.link, d.rx)
           f == Emit(d, <<k>>)
           a == [f EXCEPT !.acked = d.rx]
           h == [a EXCEPT !.rxpdu = NONE]
           b == Arm(h, "monitor")
<1>1. d.link \in Link /\ d.rx \in Byte
  BY DEF Device
<1>2. k \in Packet /\ k.kind = "trans_ack" /\ k.tn = d.rx
  BY <1>1, PacketType DEF TransAckPkt
<1>3. Acked(d) = b
  BY DEF Acked
<1> HIDE DEF k
<1>4. <<k>> \in Seq(Packet)
  BY <1>2
<1>5. f \in Device /\ Same(d, f) /\ f.out = <<k>>
  BY <1>4, EmitFields, FirstOut
<1> HIDE DEF f
<1>6. a \in Device /\ SameLog(f, a) /\ SameTx(f, a) /\ a.acked = d.rx /\ a.out = f.out
  BY <1>1, <1>5 DEF Device, SameLog, SameTx
<1> HIDE DEF a
<1>7. h \in Device /\ SameLog(a, h) /\ SameTx(a, h) /\ h.acked = d.rx /\ h.rxpdu = NONE /\ h.out = a.out
  BY <1>6 DEF Device, SameLog, SameTx
<1> HIDE DEF h
<1>8. b \in Device /\ Same(h, b) /\ b.timer = "monitor" /\ b.out = h.out
  BY <1>7, ArmFields DEF Timer
<1> HIDE DEF b
<1>9. b.out = <<k>>
  BY <1>5, <1>6, <1>7, <1>8
<1>10. \A j \in DOMAIN b.out : b.out[j].kind = "trans_ack" /\ b.out[j].tn = d.rx
  BY <1>2, <1>9
<1>11. SameLog(d, b) /\ SameTx(d, b) /\ b.acked = d.rx /\ b.rxpdu = NONE
  BY <1>5, <1>6, <1>7, <1>8 DEF Same, SameLog, SameRx, SameTx
<1> QED
  BY <1>3, <1>4, <1>8, <1>9, <1>10, <1>11

\* The PDU of a session that is over, or one that is found invalid.
LEMMA RefusedResult ==
  ASSUME NEW n \in Node, NEW d, NEW e, NEW s, NEW r, Setting(n, d, e, s, r), r # << >>, NEW p,
         d.rxpdu # NONE, <<d.rx, d.rxpdu>> \in e.sent, d.state # IDLE,
         Over(d) \/ (d.state >= INVITE /\ d.state # COMPLETE)
  PROVE  LET x == SendPdu(n, Acked(d), FAILED)
         IN  Result(n, d, e, s, Tail(r), x) /\ Log(n, d, p, x)
<1> DEFINE b == Acked(d)
           x == SendPdu(n, b, FAILED)
<1>1. d \in Device /\ d.out = << >>
  BY DEF Setting
<1>2. /\ b \in Device /\ SameLog(d, b) /\ SameTx(d, b) /\ b.rxpdu = NONE /\ b.timer = "monitor"
      /\ \A j \in DOMAIN b.out : b.out[j].kind = "trans_ack" /\ b.out[j].tn = d.rx
  BY <1>1, AckedFields
<1> HIDE DEF b
<1>3. b.state = d.state /\ d.state \in 0 .. 13 /\ FAILED \in PDU
  BY <1>1, <1>2, Numbers DEF SameTx, Device
<1>4. CASE MaySend(b.state, FAILED)
  <2>1. /\ x \in Device /\ SameLog(b, x) /\ SameRx(b, x) /\ x.out = b.out
        /\ x.state = FAILED /\ x.timer = "delay_pdu"
    BY <1>2, <1>3, <1>4, SendPduFields
  <2> HIDE DEF x
  <2>2. SameLog(d, x) /\ Over(x) /\ x.state # IDLE /\ x.rxpdu = NONE /\ x.timer # "delay_ack"
    BY <1>2, <2>1, Numbers DEF SameLog, SameRx, Over
  <2>3. \A j \in DOMAIN x.out : x.out[j].kind = "trans_ack" /\ x.out[j].tn = d.rx
    BY <1>2, <2>1
  <2>4. Result(n, d, e, s, Tail(r), x) /\ Log(n, d, p, x)
    BY <2>1, <2>2, <2>3, AckQuits
  <2> QED
    BY <2>4 DEF x, b
<1>5. CASE ~MaySend(b.state, FAILED)
  <2>1. b.state = FAILED
    <3>1. MaySend(b.state, FAILED) <=> b.state >= INVITE /\ b.state \notin {COMPLETE, FAILED}
      BY Numbers DEF MaySend
    <3> QED
      BY <1>3, <1>5, <3>1, Numbers DEF Over
  <2>2. x = b
    BY <1>2, <1>3, <1>5, SendPduFields
  <2>3. Over(b) /\ b.state # IDLE /\ b.timer # "delay_ack"
    BY <1>2, <2>1, Numbers DEF Over
  <2>4. Result(n, d, e, s, Tail(r), b) /\ Log(n, d, p, b)
    BY <1>2, <2>3, AckQuits
  <2> QED
    BY <2>2, <2>4 DEF x, b
<1> QED
  BY <1>4, <1>5

\* The PDU of a session that goes on, found valid.
LEMMA AcceptedResult ==
  ASSUME NEW n \in Node, NEW d, NEW e, NEW s, NEW r, Setting(n, d, e, s, r), r # << >>, NEW p,
         d.rxpdu \notin {NONE, FAILED}, Live(d),
         NEW i \in 0 .. 6, At(n, d, i), Count(e) <= i, n = Prov /\ Count(d) = 1 => i = 3,
         NEW pdu, pdu = d.rxpdu
  PROVE  LET y == Accept(Acked(d), pdu)
             x == IF Answer(n, pdu) = NONE THEN y ELSE SendPdu(n, y, Answer(n, pdu))
         IN  d.state <= pdu /\ Result(n, d, e, s, Tail(r), x) /\ Log(n, d, p, x)
<1> DEFINE b == Acked(d)
           y == Accept(b, pdu)
           ans == Answer(n, pdu)
           z == SendPdu(n, y, ans)
           m == Peer(n)
           c == Count(d)
<1>1. d \in Device /\ d.out = << >>
  BY DEF Setting
<1>2. /\ d.rx = Num(m, c + 1) /\ pdu = Line(m)[c + 1] /\ Entry(m, c + 1) \in e.sent
      /\ c + 1 <= May(m, Count(e)) /\ c + 1 <= Last(m)
  BY BufferIs
<1>3. <<c, i, d.state>> \in Stages(n) /\ d.tx = Num(n, i) /\ c \in Nat /\ c < Last(m)
  BY <1>1, <1>2, CountType DEF At, Last
<1>4. /\ pdu \in 3 .. 11 /\ d.state <= pdu
      /\ ans = NONE => <<c + 1, i, pdu>> \in Stages(n)
      /\ ans # NONE =>
           /\ ans \in 3 .. 11 /\ MaySend(pdu, ans)
           /\ <<c + 1, i + 1, ans>> \in Stages(n) /\ Line(n)[i + 1] = ans
           /\ NextTn(n, Num(n, i), ans) = Num(n, i + 1)
  BY <1>2, <1>3, NextStage
<1>5. /\ b \in Device /\ SameLog(d, b) /\ SameTx(d, b) /\ b.acked = d.rx /\ b.rxpdu = NONE
      /\ b.timer = "monitor"
      /\ \A j \in DOMAIN b.out : b.out[j].kind = "trans_ack" /\ b.out[j].tn = d.rx
  BY <1>1, AckedFields
<1>6. pdu \in PDU /\ pdu # FAILED
  BY <1>4, Numbers
<1>7. d.rx = Num(Peer(n), Count(d) + 1) /\ Entry(Peer(n), Count(d) + 1) \in e.sent
      /\ Count(d) + 1 <= May(Peer(n), Count(e)) /\ Count(d) + 1 <= Last(Peer(n))
  BY <1>2
<1> HIDE DEF b
<1>8. /\ y \in Device /\ SameRx(b, y) /\ y.state = pdu /\ y.tx = b.tx /\ y.sent = b.sent
      /\ y.ended = b.ended /\ y.timer = b.timer /\ y.out = b.out
      /\ y.heard = Append(b.heard, pdu)
  <2>1. b \in Device /\ pdu \in PDU
    BY <1>5, <1>6
  <2>2. /\ y \in Device /\ SameRx(b, y) /\ y.state = pdu /\ y.tx = b.tx /\ y.sent = b.sent
        /\ y.ended = b.ended /\ y.timer = b.timer /\ y.out = b.out
        /\ y.heard = IF pdu = FAILED THEN b.heard ELSE Append(b.heard, pdu)
    BY <2>1, AcceptFields
  <2> HIDE DEF y
  <2> QED
    BY <1>6, <2>2
<1>9. y.provisioned = (b.provisioned \/ pdu = DATA)
  <2>1. b \in Device /\ pdu \in PDU
    BY <1>5, <1>6
  <2> QED
    BY <2>1, AcceptFields
<1>10. y.provisioned => d.provisioned \/ n # Dev \/ c + 1 = 6
  <2>1. SUFFICES ASSUME pdu = DATA, n = Dev PROVE c + 1 = 6
    BY <1>5, <1>9 DEF SameLog
  <2>2. m = Prov /\ Last(m) = 6
    BY <2>1 DEF Last, Peer, Prov, Dev
  <2>3. \/ c = 0 \/ c = 1 \/ c = 2 \/ c = 3 \/ c = 4 \/ c = 5
    BY <1>3, <2>2
  <2>4. Line(Prov)[c + 1] = 10
    BY <1>2, <2>1, <2>2, Numbers
  <2> QED
    BY <2>3, <2>4, Lines
<1> HIDE DEF y, ans, m, c
<1>11. /\ y.heard = Append(d.heard, Line(m)[c + 1]) /\ y.sent = d.sent /\ y.ended = d.ended
       /\ y.acked = d.rx /\ y.rxpdu = NONE /\ y.timer = "monitor" /\ y.tx = Num(n, i)
       /\ \A j \in DOMAIN y.out : y.out[j].kind = "trans_ack" /\ y.out[j].tn = d.rx
  BY <1>2, <1>3, <1>5, <1>8 DEF SameLog, SameRx, SameTx
<1>12. c \in Nat /\ Len(d.heard) = c
  BY <1>3 DEF c, Count
<1>13. \A x : x.heard = Append(d.heard, Line(m)[c + 1]) => Count(x) = c + 1
  <2>1. d.heard \in Seq(PDU)
    BY <1>1, CountType
  <2> QED
    BY <1>12, <2>1 DEF Count
<1>14. CASE ans = NONE
  <2>1. At(n, y, i)
    <3>1. Count(y) = c + 1
      BY <1>11, <1>13
    <3> QED
      BY <1>4, <1>8, <1>11, <1>14, <3>1 DEF At
  <2>2. ~(n = Prov /\ c = 0)
    <3>1. SUFFICES ASSUME n = Prov, c = 0 PROVE FALSE
      OBVIOUS
    <3>2. pdu = 4
      BY <1>2, <3>1, Lines DEF m, Peer
    <3> QED
      BY <1>14, <3>1, <3>2, Numbers DEF ans, Answer, Prov, Dev
  <2>3. y \in Device /\ i \in {i, i + 1} /\ i <= 6 /\ y.timer # "delay_ack" /\ (n = Prov /\ c = 0 => i = 2)
    BY <1>8, <1>11, <2>2
  <2>4. Result(n, d, e, s, Tail(r), y) /\ Log(n, d, p, y)
    BY <1>7, <1>10, <1>11, <2>1, <2>3, HearsResult DEF m, c
  <2> QED
    BY <1>4, <1>14, <2>4 DEF y, b, ans
<1>15. CASE ans # NONE
  <2>1. ans \in PDU /\ MaySend(y.state, ans)
    BY <1>4, <1>8, <1>15, Numbers
  <2>2. /\ z \in Device /\ SameLog(y, z) /\ SameRx(y, z) /\ z.out = y.out
        /\ z.state = ans /\ z.tx = NextTn(n, y.tx, ans) /\ z.timer = "delay_pdu"
    BY <1>8, <2>1, SendPduFields
  <2> HIDE DEF z
  <2>3. z.heard = Append(d.heard, Line(m)[c + 1]) /\ z.sent = d.sent /\ z.ended = d.ended
        /\ (z.provisioned => d.provisioned \/ n # Dev \/ c + 1 = 6)
        /\ z.acked = d.rx /\ z.rxpdu = NONE /\ z.tx = Num(n, i + 1) /\ z.timer # "delay_ack"
        /\ \A j \in DOMAIN z.out : z.out[j].kind = "trans_ack" /\ z.out[j].tn = d.rx
    BY <1>4, <1>10, <1>11, <1>15, <2>2 DEF SameLog, SameRx
  <2>4. At(n, z, i + 1)
    <3>1. Count(z) = c + 1
      BY <1>13, <2>3
    <3>2. i + 1 # 0
      OBVIOUS
    <3> QED
      BY <1>4, <1>15, <2>2, <2>3, <3>1, <3>2 DEF At
  <2>5. i + 1 <= 6
    <3>1. <<c + 1, i + 1, ans>> \in Stages(n) /\ c + 1 \in Nat
      BY <1>4, <1>12, <1>15
    <3>2. i + 1 \in 0 .. Last(n)
      BY <3>1, StageOf
    <3> QED
      BY <3>2 DEF Last
  <2>6. n = Prov /\ c = 0 => i + 1 = 2
    BY <1>3, <1>12, StageOf DEF c
  <2>7. Result(n, d, e, s, Tail(r), z) /\ Log(n, d, p, z)
    BY <1>7, <2>2, <2>3, <2>4, <2>5, <2>6, HearsResult DEF m, c
  <2> QED
    BY <1>4, <1>15, <2>7 DEF z, y, b, ans
<1> QED
  BY <1>14, <1>15

\* meshx_pb_adv_handle_delay, acknowledgement due.
LEMMA AckAndProcessResult ==
  ASSUME OneLink, NEW n \in Node, NEW d, NEW e, NEW s, NEW r, Setting(n, d, e, s, r), r # << >>, NEW p,
         d.timer = "delay_ack", d.state # IDLE, NEW valid \in Verdicts(d.rxpdu)
  PROVE  /\ Result(n, d, e, s, Tail(r), AckAndProcess(n, d, TRUE, valid))
         /\ Log(n, d, p, AckAndProcess(n, d, TRUE, valid))
<1> DEFINE b == Acked(d)
           pdu == d.rxpdu
           w == SendPdu(n, b, FAILED)
           y == Accept(b, pdu)
           ans == Answer(n, pdu)
           z == SendPdu(n, y, ans)
           x == AckAndProcess(n, d, TRUE, valid)
<1>1. /\ d \in Device /\ e \in Device /\ d.out = << >> /\ Good(n, d) /\ Buffered(e, d) /\ Placed(n, d, e)
  BY DEF Setting, Way
<1>2. d.state \in 0 .. 13 /\ d.state # LINK_OPENING /\ ~SendMayFail
  BY <1>1, OpeningIs DEF OneLink
<1>3. d.state >= LINK_OPENED
  BY <1>2, Numbers
<1>4. pdu # NONE /\ <<d.rx, pdu>> \in e.sent /\ pdu \in PDU
  BY <1>1, <1>3, Numbers DEF Buffered, Device
<1>5. ValidPeerTn(n, d.rx)
  BY <1>1 DEF Good, Steady
<1>6. x = ProvPduProcess(n, b, pdu, valid)
  BY <1>5 DEF AckAndProcess, Acked
<1>7. /\ b \in Device /\ SameLog(d, b) /\ SameTx(d, b) /\ b.acked = d.rx /\ b.rxpdu = NONE
      /\ b.timer = "monitor"
      /\ \A j \in DOMAIN b.out : b.out[j].kind = "trans_ack" /\ b.out[j].tn = d.rx
  BY <1>1, AckedFields
<1>8. b.state = d.state
  BY <1>7 DEF SameTx
<1>9. x = IF ~MayAccept(d.state, pdu) \/ ~valid THEN w ELSE IF ans = NONE THEN y ELSE z
  BY <1>4, <1>6, <1>8 DEF ProvPduProcess
<1>10. MayAccept(d.state, pdu) <=> pdu = FAILED \/ d.state <= pdu
  BY DEF MayAccept
<1> HIDE DEF b, x
<1>11. CASE pdu = FAILED
  <2>1. valid
    BY <1>11 DEF Verdicts, OneLink
  <2>2. ans = NONE
    BY <1>11, Numbers DEF Answer
  <2>3. x = y
    BY <1>9, <1>10, <1>11, <2>1, <2>2
  <2>4. /\ y \in Device /\ SameRx(b, y) /\ y.state = pdu /\ y.tx = b.tx /\ y.sent = b.sent
        /\ y.ended = b.ended /\ y.timer = b.timer /\ y.out = b.out
        /\ y.heard = IF pdu = FAILED THEN b.heard ELSE Append(b.heard, pdu)
    BY <1>4, <1>7, AcceptFields
  <2>5. y.provisioned = (b.provisioned \/ pdu = DATA)
    BY <1>4, <1>7, AcceptFields
  <2> HIDE DEF y
  <2>6. y.provisioned = b.provisioned
    <3>1. pdu # DATA /\ b.provisioned \in BOOLEAN
      BY <1>7, <1>11, Numbers DEF Device
    <3> QED
      BY <2>5, <3>1
  <2>7. SameLog(d, y)
    BY <1>7, <1>11, <2>4, <2>6 DEF SameLog
  <2>8. Over(y) /\ y.state # IDLE /\ y.rxpdu = NONE /\ y.timer # "delay_ack"
    BY <1>7, <1>11, <2>4, Numbers DEF Over, SameRx
  <2>9. \A j \in DOMAIN y.out : y.out[j].kind = "trans_ack" /\ y.out[j].tn = d.rx
    BY <1>7, <2>4
  <2>10. Result(n, d, e, s, Tail(r), y) /\ Log(n, d, p, y)
    BY <1>4, <2>4, <2>7, <2>8, <2>9, AckQuits
  <2> QED
    BY <2>3, <2>10 DEF x
<1>12. CASE pdu # FAILED /\ Over(d)
  <2>1. ~MayAccept(d.state, pdu)
    BY <1>4, <1>10, <1>12, Numbers DEF Over
  <2>2. x = w
    BY <1>9, <2>1
  <2>3. Result(n, d, e, s, Tail(r), w) /\ Log(n, d, p, w)
    BY <1>4, <1>12, RefusedResult DEF b
  <2> QED
    BY <2>2, <2>3 DEF x
<1>13. CASE pdu # FAILED /\ ~Over(d)
  <2>1. Live(d)
    BY <1>2, <1>13 DEF Live
  <2>2. PICK i \in 0 .. 6 : At(n, d, i) /\ Count(e) <= i /\ Ready(e, i)
    BY <1>1, <2>1 DEF Placed
  <2> DEFINE m == Peer(n)
             c == Count(d)
  <2>3. /\ d.rx = Num(m, c + 1) /\ pdu = Line(m)[c + 1] /\ Entry(m, c + 1) \in e.sent
        /\ c + 1 <= May(m, Count(e)) /\ c + 1 <= Last(m)
    BY <1>4, <1>13, <2>1, BufferIs
  <2>4. <<c, i, d.state>> \in Stages(n) /\ c \in Nat /\ Count(e) \in Nat
    BY <1>1, <2>2, CountType DEF At
  <2>5. n = Prov /\ c = 1 => i = 3
    <3>1. SUFFICES ASSUME n = Prov, c = 1 PROVE i = 3
      OBVIOUS
    <3>2. m = Dev
      BY <3>1 DEF Peer
    <3>3. Count(e) >= 3
      BY <2>3, <2>4, <3>1, <3>2 DEF May, Prov, Dev
    <3>4. i = 2 \/ i = 3
      BY <2>4, <3>1, StageOf
    <3> QED
      BY <2>2, <2>4, <3>3, <3>4
  <2> DEFINE v == IF Answer(n, pdu) = NONE THEN Accept(Acked(d), pdu)
                                           ELSE SendPdu(n, Accept(Acked(d), pdu), Answer(n, pdu))
  <2>6. d.state <= pdu /\ Result(n, d, e, s, Tail(r), v) /\ Log(n, d, p, v)
    BY <1>4, <1>13, <2>1, <2>2, <2>5, AcceptedResult
  <2>7. CASE valid
    <3>1. x = v
      BY <1>9, <1>10, <2>6, <2>7 DEF b
    <3> QED
      BY <2>6, <3>1 DEF x
  <2>8. CASE ~valid
    <3>1. x = w
      BY <1>9, <2>8
    <3>2. d.state >= INVITE /\ d.state # COMPLETE
      <4>1. d.state # COMPLETE
        <5>1. n = Prov => Last(m) = 5
          BY DEF Last, Peer, Prov, Dev
        <5>2. n = Dev => Last(m) = 6
          BY DEF Last, Peer, Prov, Dev
        <5>3. n = Prov => c <= 4
          BY <2>3, <2>4, <5>1
        <5>4. n = Dev => c <= 5
          BY <2>3, <2>4, <5>2
        <5> QED
          BY <2>4, <5>3, <5>4, StageOf, Numbers DEF Node
      <4>2. d.state # LINK_OPENED
        <5>1. SUFFICES ASSUME d.state = 2 PROVE FALSE
          BY Numbers
        <5>2. n = Dev /\ c = 0
          BY <2>4, <5>1, StageOf DEF Node
        <5>3. pdu = INVITE
          BY <2>3, <5>2, Lines, Numbers DEF Peer, Prov, Dev
        <5> QED
          BY <2>8, <5>3 DEF Verdicts, OneLink
      <4> QED
        BY <1>2, <1>3, <4>1, <4>2, Numbers
    <3>3. Result(n, d, e, s, Tail(r), w) /\ Log(n, d, p, w)
      BY <1>4, <3>2, RefusedResult DEF b
    <3> QED
      BY <3>1, <3>3 DEF x
  <2> QED
    BY <2>7, <2>8
<1> QED
  BY <1>11, <1>12, <1>13

-----------------------------------------------------------------------------
(* Steps of the system *)

\* Every node's handlers start from a setting.
LEMMA Settled ==
  ASSUME TypeOK, SInv, AllNumbered, NumbersLast, DevNumbersLast, OInv, NEW n \in Node
  PROVE  Setting(n, dev[n], dev[Peer(n)], q[Peer(n)], q[n])
<1>1. Peer(n) \in Node /\ Peer(Peer(n)) = n
  BY Peers
<1>2. /\ dev[n] \in Device /\ dev[Peer(n)] \in Device
      /\ q[n] \in Seq(Message) /\ q[Peer(n)] \in Seq(Message)
  BY <1>1 DEF TypeOK
<1>3. Room(n, dev[n])
  BY DEF Room, NumbersLast, DevNumbersLast
<1>4. Good(n, dev[n]) /\ Numbered(dev[n]) /\ Numbered(dev[Peer(n)])
  BY <1>1 DEF SInv, AllNumbered
<1>5. /\ Way(n, dev[n], dev[Peer(n)], q[Peer(n)], q[n])
      /\ Way(Peer(n), dev[Peer(n)], dev[n], q[n], q[Peer(n)])
  BY <1>1 DEF OInv, Ways
<1>6. dev[n].out = << >>
  BY DEF OInv, Ends
<1> QED
  BY <1>2, <1>3, <1>4, <1>5, <1>6 DEF Setting

\* A step that keeps its node's order keeps that of the system.
LEMMA OrderedStep ==
  ASSUME TypeOK, SInv, AllNumbered, NumbersLast, DevNumbersLast, OInv, NEW n \in Node, q[n] # << >>,
         NEW x, Step(n, x), Result(n, dev[n], dev[Peer(n)], q[Peer(n)], Tail(q[n]), x),
         Log(n, dev[n], Head(q[n]), x)
  PROVE  OInv'
<1> DEFINE m == Peer(n)
           d == dev[n]
           e == dev[m]
           s == q[m]
           r == q[n]
           t == Tail(r)
           u == Enqueue(s, x.out)
           y == [x EXCEPT !.out = << >>]
<1>1. m \in Node /\ m # n /\ Peer(m) = n /\ \A k \in Node : k = n \/ k = m
  BY Peers
<1>2. Setting(n, d, e, s, r)
  BY Settled
<1>3. x \in Device /\ Result(n, d, e, s, t, x) /\ Log(n, d, Head(r), x)
  BY DEF Result
<1>4. /\ dev' = [dev EXCEPT ![n] = y] /\ session' = session
      /\ q' = [q EXCEPT ![n] = t, ![m] = u]
  BY <1>1 DEF Step, TypeOK
<1>5. dev'[n] = y /\ dev'[m] = e /\ q'[n] = t /\ q'[m] = u
  BY <1>1, <1>4 DEF TypeOK
<1>6. /\ y.state = x.state /\ y.acked = x.acked /\ y.rxpdu = x.rxpdu /\ y.heard = x.heard
      /\ y.sent = x.sent /\ y.ended = x.ended /\ y.provisioned = x.provisioned /\ y.out = << >>
  BY <1>3, OutFields
<1>7. Way(n, y, e, u, t) /\ Way(m, e, y, t, u)
  BY <1>2, <1>3, OutgoingWay, IncomingWay
<1>8. /\ d \in Device /\ e \in Device /\ s \in Seq(Message) /\ r \in Seq(Message) /\ x.out \in Seq(Packet)
  BY <1>2, <1>3 DEF Setting, Device
<1>9. /\ t \in Seq(Message) /\ 1 \in DOMAIN r /\ Head(r) = r[1]
      /\ \A j \in DOMAIN t : j + 1 \in DOMAIN r /\ j + 1 > 1 /\ t[j] = r[j + 1]
  BY <1>8, QueueTail
<1>10. \A j \in DOMAIN u : \/ j \in DOMAIN s /\ u[j] = s[j]
                           \/ j > Len(s) /\ j - Len(s) \in DOMAIN x.out /\ u[j] = x.out[j - Len(s)]
  BY <1>8, QueueAfter
<1>11. d.sent \subseteq x.sent /\ Stream(d, s) /\ Stream(e, r) /\ Numbered(e) /\ Says(n, d, e, x)
       /\ Count(d) <= Count(x) /\ Count(x) <= Last(m)
  BY <1>2, <1>3 DEF Setting, Way, Result, Heard
<1>12. Opened /\ Ends
  BY DEF OInv
<1> HIDE DEF t, u, y, m
<1>13. Ways'
  <2>1. Way(n, dev'[n], dev'[Peer(n)], q'[Peer(n)], q'[n])
    BY <1>5, <1>7 DEF m
  <2>2. Way(m, dev'[m], dev'[Peer(m)], q'[Peer(m)], q'[m])
    BY <1>1, <1>5, <1>7
  <2> QED
    BY <1>1, <2>1, <2>2 DEF Ways
<1>14. session # 0
  BY <1>12 DEF Opened
<1>15. (n = Dev => m = Prov) /\ (n = Prov => m = Dev)
  BY <1>1 DEF Node, Prov, Dev
<1>16. x.state = LINK_OPENING => d.state = LINK_OPENING /\ x.heard = d.heard /\ x.acked = d.acked /\ x.rxpdu = d.rxpdu
  BY <1>3 DEF Log
<1>17. Opens(x.out) => n = Prov /\ d.state = LINK_OPENING /\ x.sent = {}
  BY <1>3 DEF Log
<1>18. Early' => Early
  <2>1. CASE n = Prov
    <3>1. dev'[Prov].state = LINK_OPENING => dev[Prov].state = LINK_OPENING
      BY <1>5, <1>6, <1>16, <2>1
    <3>2. Opens(u) => Opens(s) \/ Opens(x.out)
      BY <1>10 DEF Opens
    <3>3. Opens(q'[Dev]) => Opens(q[Dev]) \/ dev[Prov].state = LINK_OPENING
      BY <1>5, <1>15, <1>17, <2>1, <3>2
    <3> QED
      BY <1>4, <3>1, <3>3 DEF Early
  <2>2. CASE n = Dev
    <3>1. dev'[Prov] = dev[Prov]
      BY <1>5, <1>15, <2>2
    <3>2. Opens(t) => Opens(r)
      BY <1>9 DEF Opens
    <3>3. Opens(q'[Dev]) => Opens(q[Dev])
      BY <1>5, <2>2, <3>2
    <3> QED
      BY <1>4, <3>1, <3>3 DEF Early
  <2> QED
    BY <2>1, <2>2 DEF Node
<1>19. ASSUME Early' PROVE Untouched(dev'[Dev]) /\ NoReceipt(q'[Prov])
  <2>1. Early /\ Untouched(dev[Dev]) /\ NoReceipt(q[Prov])
    BY <1>12, <1>18, <1>19 DEF Opened
  <2>2. CASE n = Prov
    <3>1. dev'[Dev] = dev[Dev] /\ q'[Prov] = t
      BY <1>5, <1>15, <2>2
    <3>2. NoReceipt(t)
      BY <1>9, <2>1, <2>2 DEF NoReceipt
    <3> QED
      BY <2>1, <3>1, <3>2
  <2>3. CASE n = Dev
    <3>1. Head(r).kind # "seg"
      <4>1. CASE dev[Prov].state = LINK_OPENING
        <5>1. e.sent = {}
          BY <1>11, <1>15, <2>3, <4>1 DEF Numbered
        <5> QED
          BY <1>9, <1>11, <5>1 DEF Stream
      <4>2. CASE dev[Prov].state # LINK_OPENING
        <5>1. dev'[Prov] = dev[Prov] /\ q'[Dev] = t
          BY <1>5, <1>15, <2>3
        <5>2. Opens(t)
          BY <1>4, <1>14, <1>19, <4>2, <5>1 DEF Early
        <5>3. PICK j \in DOMAIN t : t[j].kind = "open"
          BY <5>2 DEF Opens
        <5>4. j + 1 \in DOMAIN r /\ 1 < j + 1 /\ r[j + 1].kind = "open"
          BY <1>9, <5>3
        <5>5. r[1].kind # "seg"
          BY <1>9, <1>12, <2>3, <5>4 DEF Opened
        <5> QED
          BY <1>9, <5>5
      <4> QED
        BY <4>1, <4>2
    <3>2. Untouched(x) /\ NoReceipt(x.out)
      BY <1>3, <2>1, <2>3, <3>1 DEF Log, Pristine
    <3>3. Untouched(y)
      BY <1>6, <3>2 DEF Untouched
    <3>4. NoReceipt(u)
      BY <1>10, <1>15, <2>1, <2>3, <3>2 DEF NoReceipt
    <3> QED
      BY <1>5, <1>15, <2>3, <3>3, <3>4
  <2> QED
    BY <2>2, <2>3 DEF Node
<1>20. dev'[Prov].state = LINK_OPENING =>
         dev'[Prov].heard = << >> /\ dev'[Prov].acked = 0 /\ dev'[Prov].rxpdu = NONE
  <2>1. dev[Prov].state = LINK_OPENING =>
          dev[Prov].heard = << >> /\ dev[Prov].acked = 0 /\ dev[Prov].rxpdu = NONE
    BY <1>12 DEF Opened
  <2>2. CASE n = Prov
    BY <1>5, <1>6, <1>16, <2>1, <2>2
  <2>3. CASE n = Dev
    BY <1>5, <1>15, <2>1, <2>3
  <2> QED
    BY <2>2, <2>3 DEF Node
<1>21. ASSUME NEW j \in DOMAIN q'[Dev], NEW k \in DOMAIN q'[Dev], j < k, q'[Dev][k].kind = "open"
       PROVE  q'[Dev][j].kind # "seg"
  <2>1. \A a, b \in DOMAIN q[Dev] : a < b /\ q[Dev][b].kind = "open" => q[Dev][a].kind # "seg"
    BY <1>12 DEF Opened
  <2>2. CASE n = Dev
    <3>1. j + 1 \in DOMAIN r /\ k + 1 \in DOMAIN r /\ j + 1 < k + 1 /\ t[j] = r[j + 1] /\ t[k] = r[k + 1]
      BY <1>5, <1>9, <1>21, <2>2
    <3> QED
      BY <1>5, <1>21, <2>1, <2>2, <3>1
  <2>3. CASE n = Prov
    <3>1. q'[Dev] = u /\ s = q[Dev]
      BY <1>5, <1>15, <2>3
    <3>2. CASE k \in DOMAIN s /\ u[k] = s[k]
      <4>1. j \in DOMAIN s /\ u[j] = s[j]
        <5>1. j \in DOMAIN u /\ j < k
          BY <1>21, <3>1
        <5>2. k <= Len(s) /\ k \in Nat /\ Len(s) \in Nat
          BY <1>8, <3>2
        <5>3. j \in Nat
          <6>1. u \in Seq(Message)
            BY <1>8, QueueAfter DEF u
          <6> QED
            BY <5>1, <6>1
        <5>4. ~(j > Len(s))
          BY <5>1, <5>2, <5>3
        <5> QED
          BY <1>10, <5>1, <5>4
      <4> QED
        BY <1>21, <2>1, <3>1, <3>2, <4>1
    <3>3. CASE k - Len(s) \in DOMAIN x.out /\ u[k] = x.out[k - Len(s)]
      <4>1. Opens(x.out)
        BY <1>21, <3>1, <3>3 DEF Opens
      <4>2. x.sent = {} /\ d.sent = {}
        BY <1>11, <1>17, <4>1
      <4>3. CASE j \in DOMAIN s /\ u[j] = s[j]
        BY <1>11, <3>1, <4>2, <4>3 DEF Stream
      <4>4. CASE j - Len(s) \in DOMAIN x.out /\ u[j] = x.out[j - Len(s)]
        BY <1>11, <3>1, <4>2, <4>4 DEF Says
      <4> QED
        BY <1>10, <1>21, <3>1, <4>3, <4>4
    <3> QED
      BY <1>10, <1>21, <3>1, <3>2, <3>3
  <2> QED
    BY <2>2, <2>3 DEF Node
<1>22. Opened'
  BY <1>4, <1>12, <1>14, <1>19, <1>20, <1>21 DEF Opened
<1>23. Ends'
  <2>1. \A k \in Node : dev'[k].out = << >>
    BY <1>1, <1>5, <1>6, <1>12 DEF Ends
  <2>2. \A k \in Node : dev'[k].state # IDLE => dev'[k].ended = NOT_ENDED
    <3>1. x.state # IDLE => x.ended = NOT_ENDED \/ (d.state # IDLE /\ x.ended = d.ended)
      BY <1>3 DEF Log
    <3> QED
      BY <1>1, <1>5, <1>6, <1>12, <3>1 DEF Ends
  <2>3. dev'[Dev].provisioned => Count(dev'[Dev]) = 6
    <3>1. CASE n = Prov
      BY <1>5, <1>12, <1>15, <3>1 DEF Ends
    <3>2. CASE n = Dev
      <4>1. x.provisioned => d.provisioned \/ Count(x) = 6
        BY <1>3, <3>2 DEF Log
      <4>2. d.provisioned => Count(d) = 6
        BY <1>12, <3>2 DEF Ends
      <4>3. Count(x) <= 6 /\ Count(x) \in Nat /\ Count(d) <= Count(x)
        BY <1>3, <1>11, <1>15, <3>2, CountType DEF Last
      <4>4. x.provisioned => Count(x) = 6
        BY <4>1, <4>2, <4>3
      <4>5. Count(y) = Count(x)
        BY <1>6 DEF Count
      <4> QED
        BY <1>5, <1>6, <3>2, <4>4, <4>5
    <3> QED
      BY <3>1, <3>2 DEF Node
  <2> QED
    BY <2>1, <2>2, <2>3 DEF Ends
<1> QED
  BY <1>13, <1>22, <1>23 DEF OInv

\* A step that keeps its node's order.
Ordered(n, x) ==
  /\ Step(n, x) /\ Result(n, dev[n], dev[Peer(n)], q[Peer(n)], Tail(q[n]), x)
  /\ Log(n, dev[n], Head(q[n]), x)

\* Every handler does.
LEMMA HandleOrder ==
  ASSUME OneLink, TypeOK, SInv, AllNumbered, NumbersLast, DevNumbersLast, OInv, NEW n \in Node, Handle(n)
  PROVE  q[n] # << >> /\ \E x : Ordered(n, x)
<1> DEFINE d == dev[n]
           e == dev[Peer(n)]
           s == q[Peer(n)]
           r == q[n]
           p == Head(r)
           Keeps(x) == Result(n, d, e, s, Tail(r), x) /\ Log(n, d, p, x)
<1>1. r # << >>
  BY DEF Handle, RecvLinkOpen, RecvLinkAck, RecvLinkClose, RecvTransStart, RecvTransContinue,
         RecvTransAck, HandleDelayAck, HandleDelayPdu, HandleRetry, HandleLinkLoss,
         HandleStaleObject, TimeoutOf, Is
<1>2. Setting(n, d, e, s, r)
  BY Settled
<1>3. ~SendMayFail /\ SendResults = {TRUE}
  BY DEF OneLink, SendResults
<1>4. d \in Device /\ r \in Seq(Message) /\ AllSane(n, r) /\ Receipts(n, d, e, r)
  BY <1>2 DEF Setting, Way, SInv
<1>5. p \in Message /\ 1 \in DOMAIN r /\ p = r[1]
  BY <1>1, <1>4
<1>6. \A x : Step(n, x) /\ Keeps(x) => \E y : Ordered(n, y)
  BY DEF Ordered
<1>7. Keeps(d)
  BY <1>1, <1>2, StaysResult
<1>8. CASE RecvLinkOpen(n)
  <2>1. p.kind = "open"
    BY <1>8 DEF RecvLinkOpen, Is
  <2>2. p.link \in Link /\ p.uuid \in Uuid
    BY <1>5, <2>1 DEF Message, Packet
  <2>3. CASE p.uuid = n
    <3>1. n = Dev /\ Peer(n) = Prov
      BY <2>2, <2>3 DEF Uuid, Node, Prov, Dev, Peer
    <3>2. Early
      BY <1>5, <2>1, <3>1 DEF Early, Opens
    <3>3. Untouched(d) /\ NoReceipt(s)
      BY <3>1, <3>2 DEF OInv, Opened
    <3>4. PICK a \in Addrs : Step(n, LinkOpened(d, p.link, a, TRUE))
      BY <1>3, <1>8, <2>3 DEF RecvLinkOpen
    <3>5. Keeps(LinkOpened(d, p.link, a, TRUE))
      BY <1>1, <1>2, <1>3, <2>2, <3>1, <3>3, LinkOpenedResult
    <3> QED
      BY <1>1, <1>6, <3>4, <3>5
  <2>4. CASE p.uuid # n
    <3>1. Step(n, d)
      BY <1>8, <2>4 DEF RecvLinkOpen
    <3> QED
      BY <1>1, <1>6, <1>7, <3>1
  <2> QED
    BY <2>3, <2>4
<1>9. CASE RecvLinkAck(n)
  <2>1. d.state = LINK_OPENING => d.heard = << >> /\ d.acked = 0 /\ d.rxpdu = NONE
    <3>1. d.state = LINK_OPENING => n = Prov
      BY <1>2, <1>3, OpeningIs DEF Setting
    <3> QED
      BY <3>1 DEF OInv, Opened
  <2>2. Keeps(LinkAcked(n, d))
    BY <1>1, <1>2, <1>3, <2>1, LinkAckedResult
  <2> QED
    BY <1>1, <1>6, <1>9, <2>2 DEF RecvLinkAck
<1>10. CASE RecvLinkClose(n)
  <2>1. p.kind = "close" /\ Step(n, LinkClosed(d, p.reason))
    BY <1>10 DEF RecvLinkClose, Is
  <2>2. p.reason \in WireReasons
    BY <1>5, <2>1 DEF Message, Packet
  <2>3. p.reason \in Ending
    BY <2>2, ReasonType
  <2>4. Keeps(LinkClosed(d, p.reason))
    BY <1>1, <1>2, <2>3, LinkClosedResult
  <2> QED
    BY <1>1, <1>6, <2>1, <2>4
<1>11. ASSUME p.kind = "seg" PROVE ValidPeerTn(n, p.tn)
  BY <1>4, <1>5, <1>11 DEF AllSane, Sane
<1>12. CASE RecvTransStart(n)
  <2>1. p.kind = "seg" /\ Step(n, TransStart(d, p))
    BY <1>12 DEF RecvTransStart, Is
  <2>2. Keeps(TransStart(d, p))
    BY <1>1, <1>2, <1>11, <2>1, TransStartResult
  <2> QED
    BY <1>1, <1>6, <2>1, <2>2
<1>13. CASE RecvTransContinue(n)
  <2>1. p.kind = "seg" /\ Step(n, TransContinue(d, p))
    BY <1>13 DEF RecvTransContinue, Is
  <2>2. Keeps(TransContinue(d, p))
    BY <1>1, <1>2, <1>11, <2>1, TransContinueResult
  <2> QED
    BY <1>1, <1>6, <2>1, <2>2
<1>14. CASE RecvTransAck(n)
  <2>1. p.kind = "trans_ack" /\ Step(n, TransAcked(n, d, p.tn))
    BY <1>14 DEF RecvTransAck, Is
  <2>2. Receipt(n, d, e, p.tn)
    BY <1>4, <1>5, <2>1 DEF Receipts
  <2>3. n = Prov => p.tn # 255
    BY <1>4, <1>5, <2>1 DEF AllSane, Sane
  <2>4. Keeps(TransAcked(n, d, p.tn))
    BY <1>1, <1>2, <1>3, <2>2, <2>3, TransAckedResult
  <2> QED
    BY <1>1, <1>6, <2>1, <2>4
<1>15. CASE HandleDelayAck(n)
  <2>1. d.timer = "delay_ack" /\ d.state # IDLE
    BY <1>15 DEF HandleDelayAck, TimeoutOf
  <2>2. PICK valid \in Verdicts(d.rxpdu) : Step(n, AckAndProcess(n, d, TRUE, valid))
    BY <1>3, <1>15 DEF HandleDelayAck
  <2>3. Keeps(AckAndProcess(n, d, TRUE, valid))
    BY <1>1, <1>2, <2>1, AckAndProcessResult
  <2> QED
    BY <1>1, <1>6, <2>2, <2>3
<1>16. CASE HandleDelayPdu(n)
  <2>1. d.timer = "delay_pdu" /\ d.state \in PDU /\ Step(n, FirstSend(d))
    BY <1>16 DEF HandleDelayPdu, TimeoutOf
  <2>2. Keeps(FirstSend(d))
    BY <1>1, <1>2, <2>1, FirstSendResult
  <2> QED
    BY <1>1, <1>6, <2>1, <2>2
<1>17. CASE HandleRetry(n)
  <2>1. d.timer = "retry" /\ Step(n, Retry(d))
    BY <1>17 DEF HandleRetry, TimeoutOf
  <2>2. Keeps(Retry(d))
    BY <1>1, <1>2, <1>3, <2>1, RetryResult
  <2> QED
    BY <1>1, <1>6, <2>1, <2>2
<1>18. CASE HandleLinkLoss(n)
  <2>1. d.state # IDLE /\ Step(n, LinkLoss(d))
    BY <1>18 DEF HandleLinkLoss, TimeoutOf
  <2>2. Keeps(LinkLoss(d))
    BY <1>1, <1>2, <2>1, LinkLossResult
  <2> QED
    BY <1>1, <1>6, <2>1, <2>2
<1>19. CASE HandleStaleObject(n)
  BY <1>1, <1>6, <1>7, <1>19 DEF HandleStaleObject
<1> QED
  BY <1>8, <1>9, <1>10, <1>12, <1>13, <1>14, <1>15, <1>16, <1>17, <1>18, <1>19 DEF Handle

\* Queues out of which packets were lost, or into which timeouts were put.
Thinned(t, s) ==
  \E k \in 0 .. 1 : \A j \in DOMAIN t :
    t[j].kind = "timeout" \/ (j + k \in DOMAIN s /\ t[j] = s[j + k])

\* The loss of packets disturbs no order.
LEMMA ThinnedWay ==
  ASSUME NEW n \in Node, NEW d, NEW e, NEW s, NEW r, Way(n, d, e, s, r),
         NEW t \in Seq(Message), Thinned(t, s), NEW u \in Seq(Message), Thinned(u, r)
  PROVE  Way(n, d, e, t, u)
<1>1. PICK k \in 0 .. 1 : \A j \in DOMAIN t :
        t[j].kind = "timeout" \/ (j + k \in DOMAIN s /\ t[j] = s[j + k])
  BY DEF Thinned
<1>2. PICK h \in 0 .. 1 : \A j \in DOMAIN u :
        u[j].kind = "timeout" \/ (j + h \in DOMAIN r /\ u[j] = r[j + h])
  BY DEF Thinned
<1>3. \A j \in DOMAIN t : j \in Nat
  OBVIOUS
<1>4. \A j \in DOMAIN t : t[j].kind = "seg" => j + k \in DOMAIN s /\ t[j] = s[j + k]
  BY <1>1
<1>5. \A j \in DOMAIN u : u[j].kind = "trans_ack" => j + h \in DOMAIN r /\ u[j] = r[j + h]
  BY <1>2
<1>6. Stream(d, t)
  <2>1. Stream(d, s)
    BY DEF Way
  <2>2. \A j, i \in DOMAIN t : j < i => j + k < i + k
    BY <1>3
  <2> QED
    BY <1>4, <2>1, <2>2 DEF Stream
<1>7. Window(n, e, t)
  BY <1>4 DEF Way, Window
<1>8. Receipts(n, d, e, u)
  BY <1>5 DEF Way, Receipts
<1> QED
  BY <1>6, <1>7, <1>8 DEF Way

\* Nor does it open anything.
LEMMA ThinnedOrder ==
  ASSUME TypeOK, OInv, q' \in [Node -> Seq(Message)], \A n \in Node : Thinned(q'[n], q[n]),
         UNCHANGED <<dev, session>>, session # 0
  PROVE  OInv'
<1>1. Ways'
  <2> SUFFICES ASSUME NEW n \in Node PROVE Way(n, dev[n], dev[Peer(n)], q'[Peer(n)], q'[n])
    BY DEF Ways
  <2>1. Peer(n) \in Node
    BY Peers
  <2>2. Way(n, dev[n], dev[Peer(n)], q[Peer(n)], q[n])
    BY DEF OInv, Ways
  <2> QED
    BY <2>1, <2>2, ThinnedWay
<1>2. Prov \in Node /\ Dev \in Node
  BY DEF Node
<1>3. PICK k \in 0 .. 1 : \A j \in DOMAIN q'[Dev] :
        q'[Dev][j].kind = "timeout" \/ (j + k \in DOMAIN q[Dev] /\ q'[Dev][j] = q[Dev][j + k])
  BY <1>2 DEF Thinned
<1>4. PICK h \in 0 .. 1 : \A j \in DOMAIN q'[Prov] :
        q'[Prov][j].kind = "timeout" \/ (j + h \in DOMAIN q[Prov] /\ q'[Prov][j] = q[Prov][j + h])
  BY <1>2 DEF Thinned
<1>5. Opened
  BY DEF OInv
<1>6. Opens(q'[Dev]) => Opens(q[Dev])
  BY <1>3 DEF Opens
<1>7. NoReceipt(q[Prov]) => NoReceipt(q'[Prov])
  BY <1>4 DEF NoReceipt
<1>8. ASSUME NEW j \in DOMAIN q'[Dev], NEW i \in DOMAIN q'[Dev], j < i, q'[Dev][i].kind = "open"
      PROVE  q'[Dev][j].kind # "seg"
  <2>1. i + k \in DOMAIN q[Dev] /\ q[Dev][i + k].kind = "open"
    BY <1>3, <1>8
  <2>2. CASE q'[Dev][j].kind = "timeout"
    BY <2>2
  <2>3. CASE j + k \in DOMAIN q[Dev] /\ q'[Dev][j] = q[Dev][j + k]
    <3>1. j + k < i + k
      BY <1>2, <1>8
    <3> QED
      BY <1>5, <2>1, <2>3, <3>1 DEF Opened
  <2> QED
    BY <1>3, <2>2, <2>3
<1>9. Opened'
  <2>1. Early' => Early
    BY <1>6 DEF Early
  <2> QED
    BY <1>5, <1>7, <1>8, <2>1 DEF Opened
<1>10. Ends'
  BY DEF OInv, Ends
<1> QED
  BY <1>1, <1>9, <1>10 DEF OInv

\* The user asks to connect.
LEMMA ConnectOrder ==
  ASSUME OneLink, TypeOK, OInv, Connect
  PROVE  OInv'
<1>1. /\ dev \in [Node -> Device] /\ q \in [Node -> Seq(Message)] /\ session \in Nat
      /\ Prov \in Node /\ Dev \in Node /\ Prov # Dev
      /\ Peer(Prov) = Dev /\ Peer(Dev) = Prov
  BY DEF TypeOK, Node, Prov, Dev, Peer
<1>2. session = 0 /\ session' = 1
  BY <1>1, BoundsAssumption DEF Connect, OneLink
<1>3. /\ Opened /\ Ends /\ Early
  BY <1>2 DEF OInv, Early
<1>4. /\ \A n \in Node : dev[n].state = IDLE /\ dev[n].sent = {} /\ dev[n].heard = << >>
                         /\ dev[n].ended = NOT_ENDED /\ dev[n].out = << >> /\ q[n] = << >>
      /\ Untouched(dev[Dev])
  BY <1>2, <1>3 DEF Opened, Ends
<1>5. PICK a \in Addrs :
        dev' = [dev EXCEPT ![Prov] =
                  Arm([Created(dev[Prov], a) EXCEPT !.link = session + 1, !.tx = 255,
                         !.acked = 0, !.state = LINK_OPENING], "retry")]
  BY DEF Connect
<1> DEFINE c == Created(dev[Prov], a)
           d == Arm([c EXCEPT !.link = session + 1, !.tx = 255, !.acked = 0,
                              !.state = LINK_OPENING], "retry")
           e == dev[Dev]
           p == LinkOpenPkt(session + 1, Dev)
           s == Enqueue(<< >>, <<p>>)
<1>6. q' = [q EXCEPT ![Dev] = s]
  BY <1>1, <1>4 DEF Connect
<1>7. /\ c.rxpdu = NONE /\ c.out = << >> /\ c.heard = << >> /\ c.sent = {} /\ c.ended = NOT_ENDED
      /\ c \in Device
  <2>1. dev[Prov] \in Device
    BY <1>1
  <2>2. c \in Device
    BY <2>1, ResetEvolves DEF Evolves
  <2> QED
    BY <1>1, <1>4, <2>1, <2>2 DEF Created, Zeroed, Device
<1> HIDE DEF c
<1>8. /\ d.state = LINK_OPENING /\ d.acked = 0 /\ d.rxpdu = NONE /\ d.out = << >>
      /\ d.heard = << >> /\ d.sent = {} /\ d.ended = NOT_ENDED
  BY <1>7 DEF Arm, Device
<1>9. p.kind = "open" /\ (s = << >> \/ s = <<p>>)
  BY DEF LinkOpenPkt, Enqueue
<1>10. dev' = [dev EXCEPT ![Prov] = d]
  BY <1>5 DEF c
<1> HIDE DEF d, p, s
<1>11. dev'[Prov] = d /\ dev'[Dev] = e /\ q'[Prov] = << >> /\ q'[Dev] = s
  BY <1>1, <1>4, <1>6, <1>10
<1>12. \A j \in DOMAIN s : j = 1 /\ s[j].kind = "open"
  BY <1>9
<1>13. /\ Count(d) = 0 /\ Count(e) = 0 /\ ~Live(d) /\ ~Live(e)
       /\ ~(d.state >= LINK_OPENED) /\ ~(e.state >= LINK_OPENED)
  BY <1>1, <1>4, <1>8, Numbers DEF Count, Live, Over
<1>14. e.sent = {} /\ e.heard = << >> /\ e.state = IDLE
  BY <1>1, <1>4
<1>15. Way(Prov, d, e, s, << >>)
  <2>1. Heard(Prov, d, e)
    BY <1>13 DEF Heard, Last, May, Prov
  <2>2. Sent(Prov, d, e) /\ Placed(Prov, d, e) /\ Buffered(d, e) /\ Window(Prov, e, s)
    BY <1>8, <1>13 DEF Sent, Placed, Buffered, Window
  <2>3. Stream(d, s) /\ Receipts(Prov, d, e, << >>)
    BY <1>12 DEF Stream, Receipts
  <2> QED
    BY <2>1, <2>2, <2>3 DEF Way
<1>16. Way(Dev, e, d, << >>, s)
  <2>1. Heard(Dev, e, d)
    BY <1>13 DEF Heard, Last, May, Dev, Prov
  <2>2. Sent(Dev, e, d) /\ Placed(Dev, e, d) /\ Buffered(e, d) /\ Window(Dev, d, << >>)
    BY <1>13, <1>14 DEF Sent, Placed, Buffered, Window
  <2>3. Stream(e, << >>) /\ Receipts(Dev, e, d, s)
    BY <1>12 DEF Stream, Receipts
  <2> QED
    BY <2>1, <2>2, <2>3 DEF Way
<1>17. Ways'
  <2>1. Way(Prov, dev'[Prov], dev'[Peer(Prov)], q'[Peer(Prov)], q'[Prov])
    BY <1>1, <1>11, <1>15
  <2>2. Way(Dev, dev'[Dev], dev'[Peer(Dev)], q'[Peer(Dev)], q'[Dev])
    BY <1>1, <1>11, <1>16
  <2> QED
    BY <2>1, <2>2 DEF Ways, Node
<1>18. Opened'
  <2>1. Untouched(dev'[Dev]) /\ NoReceipt(q'[Prov])
    BY <1>4, <1>11 DEF NoReceipt
  <2>2. \A j, k \in DOMAIN q'[Dev] : ~(j < k)
    BY <1>11, <1>12
  <2> QED
    BY <1>2, <1>8, <1>11, <2>1, <2>2 DEF Opened
<1>19. Ends'
  <2>1. \A n \in Node : dev'[n].out = << >> /\ dev'[n].ended = NOT_ENDED
    BY <1>1, <1>4, <1>8, <1>11 DEF Node
  <2>2. dev'[Dev].provisioned => Count(dev'[Dev]) = 6
    BY <1>3, <1>11 DEF Ends
  <2> QED
    BY <2>1, <2>2 DEF Ends
<1> QED
  BY <1>17, <1>18, <1>19 DEF OInv

\* The order holds whatever happens.
LEMMA NextOrder ==
  ASSUME OneLink, TypeOK, SInv, AllNumbered, NumbersLast, DevNumbersLast, OInv, [Next]_vars
  PROVE  OInv'
<1>1. dev \in [Node -> Device] /\ q \in [Node -> Seq(Message)] /\ Opened
  BY DEF TypeOK, OInv
<1>2. \A n \in Node : Thinned(q[n], q[n])
  <2> SUFFICES ASSUME NEW n \in Node PROVE \A j \in DOMAIN q[n] : j + 0 \in DOMAIN q[n] /\ q[n][j] = q[n][j + 0]
    BY DEF Thinned
  <2> QED
    BY <1>1
<1>3. CASE \E n \in Node : Handle(n)
  <2>1. PICK n \in Node : Handle(n)
    BY <1>3
  <2>2. q[n] # << >> /\ \E x : Ordered(n, x)
    BY <2>1, HandleOrder
  <2> QED
    BY <2>2, OrderedStep DEF Ordered
<1>4. CASE Connect
  BY <1>4, ConnectOrder
<1>5. CASE \E n \in Node : Fire(n)
  <2>1. PICK n \in Node : Fire(n)
    BY <1>5
  <2>2. /\ q' = [q EXCEPT ![n] = Append(@, TimeoutMsg(dev[n].addr))] /\ dev' = dev
        /\ session' = session /\ session # 0
    BY <1>1, <2>1 DEF Fire, Opened
  <2>3. dev[n].addr \in Addrs
    BY <1>1 DEF Device
  <2> DEFINE t == Append(q[n], TimeoutMsg(dev[n].addr))
  <2>4. t \in Seq(Message)
    BY <1>1, <2>3, TimeoutType
  <2>5. Thinned(t, q[n])
    <3>1. TimeoutMsg(dev[n].addr).kind = "timeout"
      BY DEF TimeoutMsg
    <3>2. \A j \in DOMAIN t : t[j].kind = "timeout" \/ (j + 0 \in DOMAIN q[n] /\ t[j] = q[n][j + 0])
      BY <1>1, <3>1
    <3> QED
      BY <3>2 DEF Thinned
  <2> HIDE DEF t
  <2>6. q' = [q EXCEPT ![n] = t]
    BY <2>2 DEF t
  <2>7. q' \in [Node -> Seq(Message)] /\ \A m \in Node : Thinned(q'[m], q[m])
    BY <1>1, <1>2, <2>4, <2>5, <2>6
  <2> QED
    BY <2>2, <2>7, ThinnedOrder
<1>6. CASE \E n \in Node : Lose(n)
  <2>1. PICK n \in Node : Lose(n)
    BY <1>6
  <2>2. /\ q' = [q EXCEPT ![n] = Tail(@)] /\ q[n] # << >> /\ dev' = dev
        /\ session' = session /\ session # 0
    BY <1>1, <2>1 DEF Lose, Opened
  <2> DEFINE t == Tail(q[n])
  <2>3. t \in Seq(Message) /\ \A j \in DOMAIN t : j + 1 \in DOMAIN q[n] /\ t[j] = q[n][j + 1]
    BY <1>1, <2>2, QueueTail
  <2>4. Thinned(t, q[n])
    BY <2>3 DEF Thinned
  <2> HIDE DEF t
  <2>5. q' = [q EXCEPT ![n] = t]
    BY <2>2 DEF t
  <2>6. q' \in [Node -> Seq(Message)] /\ \A m \in Node : Thinned(q'[m], q[m])
    BY <1>1, <1>2, <2>3, <2>4, <2>5
  <2> QED
    BY <2>2, <2>6, ThinnedOrder
<1>7. CASE \E n \in Node : Overhear(n)
  BY <1>7 DEF Overhear, OneLink
<1>8. CASE UNCHANGED vars
  BY <1>8 DEF vars, OInv, Ways, Opened, Early, Ends
<1> QED
  BY <1>3, <1>4, <1>5, <1>6, <1>7, <1>8 DEF Next

\* Nothing has been sent or heard at first.
LEMMA InitOrder == Init => OInv
<1> SUFFICES ASSUME Init PROVE OInv
  OBVIOUS
<1>1. \A n \in Node : /\ dev[n].state = IDLE /\ dev[n].sent = {} /\ dev[n].heard = << >>
                      /\ dev[n].ended = NOT_ENDED /\ dev[n].rxpdu = NONE /\ dev[n].out = << >>
                      /\ ~dev[n].armed /\ ~dev[n].provisioned /\ q[n] = << >>
  BY DEF Init
<1>2. Prov \in Node /\ Dev \in Node /\ session = 0 /\ \A n \in Node : Peer(n) \in Node
  BY Peers DEF Init, Node
<1>3. Ways
  <2> SUFFICES ASSUME NEW n \in Node
               PROVE  Way(n, dev[n], dev[Peer(n)], q[Peer(n)], q[n])
    BY DEF Ways
  <2>1. /\ dev[n].sent = {} /\ Count(dev[n]) = 0 /\ Count(dev[Peer(n)]) = 0
        /\ ~Live(dev[n]) /\ ~Live(dev[Peer(n)]) /\ ~(dev[Peer(n)].state >= LINK_OPENED)
        /\ q[n] = << >> /\ q[Peer(n)] = << >>
    BY <1>1, <1>2, Numbers DEF Count, Live, Over
  <2>2. Heard(n, dev[n], dev[Peer(n)])
    BY <2>1 DEF Heard, Last, May, Node, Prov, Dev
  <2>3. Sent(n, dev[n], dev[Peer(n)]) /\ Placed(n, dev[n], dev[Peer(n)])
    BY <2>1 DEF Sent, Placed
  <2>4. Stream(dev[n], q[Peer(n)]) /\ Buffered(dev[n], dev[Peer(n)])
        /\ Window(n, dev[Peer(n)], q[Peer(n)]) /\ Receipts(n, dev[n], dev[Peer(n)], q[n])
    BY <2>1 DEF Stream, Buffered, Window, Receipts
  <2> QED
    BY <2>2, <2>3, <2>4 DEF Way
<1>4. Opened
  BY <1>1, <1>2, Numbers DEF Opened, Untouched, NoReceipt
<1>5. Ends
  BY <1>1, <1>2 DEF Ends
<1> QED
  BY <1>3, <1>4, <1>5 DEF OInv

-----------------------------------------------------------------------------
(* The dialogue *)

\* How far the two are in the script.
Told == [n \in Node |-> dev[n].heard]
Outcome == [n \in Node |-> dev[n].ended]

LEMMA PositionIs ==
  ASSUME TypeOK
  PROVE  Dialogue!Position = Count(dev[Prov]) + Count(dev[Dev])
<1> DEFINE p == Count(dev[Prov])
           v == Count(dev[Dev])
           P == {Prov} \X (1 .. p)
           V == {Dev} \X (1 .. v)
<1>1. Prov \in Node /\ Dev \in Node /\ Prov # Dev
  BY DEF Node, Prov, Dev
<1>2. dev[Prov] \in Device /\ dev[Dev] \in Device
  BY <1>1 DEF TypeOK
<1>3. p \in Nat /\ v \in Nat /\ DOMAIN dev[Prov].heard = 1 .. p /\ DOMAIN dev[Dev].heard = 1 .. v
  BY <1>2, CountType
<1> HIDE DEF p, v
<1>4. UNION {{n} \X DOMAIN Told[n] : n \in Node} = P \cup V
  BY <1>1, <1>3 DEF Told, Node
<1>5. /\ IsFiniteSet(1 .. p) /\ Cardinality(1 .. p) = p
      /\ IsFiniteSet(1 .. v) /\ Cardinality(1 .. v) = v
  BY <1>3, FS_Interval
<1>6. /\ IsFiniteSet({Prov}) /\ Cardinality({Prov}) = 1
      /\ IsFiniteSet({Dev}) /\ Cardinality({Dev}) = 1
  BY FS_Singleton
<1>7. IsFiniteSet(P) /\ Cardinality(P) = Cardinality({Prov}) * Cardinality(1 .. p)
  BY <1>5, <1>6, FS_Product, ZenonT(30)
<1>8. IsFiniteSet(V) /\ Cardinality(V) = Cardinality({Dev}) * Cardinality(1 .. v)
  BY <1>5, <1>6, FS_Product, ZenonT(30)
<1>9. P \cap V = {}
  BY <1>1
<1>10. Dialogue!Position = Cardinality(UNION {{n} \X DOMAIN Told[n] : n \in Node})
  BY DEF Dialogue!Position, Told, Dialogue!Cardinality, Cardinality
<1> HIDE DEF P, V
<1>11. Cardinality(P \cup V) = Cardinality(P) + Cardinality(V) - Cardinality(P \cap V)
  BY <1>7, <1>8, FS_Union
<1>12. Cardinality(P \cap V) = 0
  BY <1>9, FS_EmptySet
<1>13. Cardinality(P) = p /\ Cardinality(V) = v
  BY <1>3, <1>5, <1>6, <1>7, <1>8
<1>14. Cardinality(P \cup V) = p + v
  BY <1>3, <1>11, <1>12, <1>13
<1>15. Dialogue!Position = p + v
  BY <1>4, <1>14, <1>10
<1> QED
  BY <1>15 DEF p, v

\* The next PDU of a line is the next of the script.
LEMMA NextInScript ==
  ASSUME NEW n \in Node, NEW c \in Nat, NEW b \in Nat, c < Last(Peer(n)),
         c + 1 <= May(Peer(n), b), b <= May(n, c)
  PROVE  c + b < Len(Script) /\ Script[c + b + 1] = To(n, Line(Peer(n))[c + 1])
<1>1. /\ Len(Script) = 11
      /\ Script[1] = To(Dev, 3) /\ Script[2] = To(Prov, 4) /\ Script[3] = To(Dev, 5)
      /\ Script[4] = To(Dev, 6) /\ Script[5] = To(Prov, 6) /\ Script[6] = To(Dev, 8)
      /\ Script[7] = To(Prov, 8) /\ Script[8] = To(Dev, 9) /\ Script[9] = To(Prov, 9)
      /\ Script[10] = To(Dev, 10) /\ Script[11] = To(Prov, 11)
  BY Numbers DEF Script
<1>2. CASE n = Dev
  <2>1. Peer(n) = Prov /\ Last(Peer(n)) = 6
    BY <1>2 DEF Peer, Last, Prov, Dev
  <2>2. /\ c + 1 <= IF b = 0 THEN 1 ELSE IF b = 1 THEN 3 ELSE IF b < 5 THEN b + 2 ELSE 6
        /\ b <= IF c < 2 THEN c ELSE c - 1
    BY <1>2, <2>1 DEF May, Prov, Dev
  <2>3. <<c, b>> \in {<<0, 0>>, <<1, 1>>, <<2, 1>>, <<3, 2>>, <<4, 3>>, <<5, 4>>}
    BY <2>1, <2>2
  <2> QED
    BY <1>1, <1>2, <2>1, <2>3, Lines
<1>3. CASE n = Prov
  <2>1. Peer(n) = Dev /\ Last(Peer(n)) = 5
    BY <1>3 DEF Peer, Last, Prov, Dev
  <2>2. /\ b <= IF c = 0 THEN 1 ELSE IF c = 1 THEN 3 ELSE IF c < 5 THEN c + 2 ELSE 6
        /\ c + 1 <= IF b < 2 THEN b ELSE b - 1
    BY <1>3, <2>1 DEF May, Prov, Dev
  <2>3. <<c, b>> \in {<<0, 1>>, <<1, 3>>, <<2, 4>>, <<3, 5>>, <<4, 6>>}
    BY <2>1, <2>2
  <2> QED
    BY <1>1, <1>3, <2>1, <2>3, Lines
<1> QED
  BY <1>2, <1>3 DEF Node


\* A device that has heard all has answered, and been heard, up to RANDOM.
LEMMA AllHeard ==
  ASSUME TypeOK, OInv, Count(dev[Dev]) = 6
  PROVE  Count(dev[Prov]) >= 4 /\ Dialogue!Position >= 10
<1>1. Prov \in Node /\ Dev \in Node /\ Peer(Dev) = Prov /\ Peer(Prov) = Dev
  BY DEF Node, Prov, Dev, Peer
<1>2. Heard(Prov, dev[Prov], dev[Dev])
  BY <1>1 DEF OInv, Ways, Way
<1>3. 6 <= May(Prov, Count(dev[Prov]))
  BY <1>2 DEF Heard
<1>4. Count(dev[Prov]) \in Nat
  BY <1>1, CountType DEF TypeOK
<1>5. Count(dev[Prov]) >= 4
  BY <1>3, <1>4 DEF May
<1>6. Dialogue!Position = Count(dev[Prov]) + Count(dev[Dev])
  BY PositionIs
<1> QED
  BY <1>4, <1>5, <1>6

\* A handler delivers the next PDU, ends the session, or reopens it.
LEMMA HandlerTalks ==
  ASSUME TypeOK, AInv, AInv', OInv, OInv', NEW n \in Node, NEW x \in Device, Ordered(n, x)
  PROVE  Dialogue!Next \/ UNCHANGED <<Told, Outcome>>
<1> DEFINE m == Peer(n)
           d == dev[n]
           e == dev[m]
           y == [x EXCEPT !.out = << >>]
           c == Count(d)
           b == Count(e)
<1>1. m \in Node /\ m # n /\ Peer(m) = n /\ \A k \in Node : k = n \/ k = m
  BY Peers
<1>2. /\ dev \in [Node -> Device] /\ d \in Device /\ e \in Device
      /\ Step(n, x) /\ Hears(n, d, x)
  BY <1>1 DEF TypeOK, Ordered, Log
<1>3. dev' = [dev EXCEPT ![n] = y]
  BY <1>2 DEF Step
<1>4. y.heard = x.heard /\ y.ended = x.ended
  BY OutFields
<1> HIDE DEF y
<1>5. /\ Told' = [Told EXCEPT ![n] = x.heard]
      /\ Outcome' = [Outcome EXCEPT ![n] = x.ended]
  BY <1>1, <1>2, <1>3, <1>4 DEF Told, Outcome
<1>6. /\ Told \in [Node -> Seq(PDU)] /\ Told[n] = d.heard
      /\ Outcome \in [Node -> Ending] /\ Outcome[n] = d.ended /\ x.ended \in Ending
  BY <1>1, <1>2, CountType DEF Told, Outcome, Device
<1>7. c \in Nat /\ b \in Nat
  BY <1>2, CountType
<1>8. Dialogue!Position = c + b
  <2>1. (n = Prov /\ m = Dev) \/ (n = Dev /\ m = Prov)
    BY DEF Node, Peer, Prov, Dev
  <2> QED
    BY <1>7, <2>1, PositionIs
<1>9. d.state # IDLE => d.ended = NOT_ENDED
  BY DEF OInv, Ends
<1>10. dev'[n].ended = x.ended /\ dev'[n].heard = x.heard /\ dev'[m] = e
  BY <1>1, <1>2, <1>3, <1>4
<1>11. /\ Ending = 0 .. 5 /\ NOT_ENDED = 5 /\ SUCCESS = 0
       /\ (TIMEOUT .. OPEN_TIMEOUT) = 1 .. 4
  BY DEF Ending, NOT_ENDED, SUCCESS, TIMEOUT, OPEN_TIMEOUT
<1>12. CASE x.heard = d.heard /\ x.ended = d.ended
  BY <1>5, <1>6, <1>12
<1>13. CASE x.heard = d.heard /\ x.ended # d.ended /\ d.state # IDLE
  <2>1. Outcome[n] = NOT_ENDED /\ Told' = Told
    BY <1>5, <1>6, <1>9, <1>13
  <2>2. CASE x.ended = SUCCESS
    <3>1. ~Quiet'
      BY <1>10, <2>2 DEF Quiet, Unfinished
    <3>2. Count(dev'[Dev]) = 6
      BY <3>1 DEF AInv, OInv, Ends
    <3>3. Count(dev[Dev]) = 6
      <4>1. dev'[Dev].heard = dev[Dev].heard
        BY <1>1, <1>10, <1>13 DEF Node
      <4> QED
        BY <3>2, <4>1 DEF Count
    <3>4. Dialogue!Position >= 10
      BY <3>3, AllHeard
    <3>5. Dialogue!End(n)
      BY <1>5, <2>1, <2>2, <3>4 DEF Dialogue!End, Told, Outcome
    <3> QED
      BY <3>5 DEF Dialogue!Next
  <2>3. CASE x.ended # SUCCESS
    <3>1. x.ended \in TIMEOUT .. OPEN_TIMEOUT
      BY <1>6, <1>11, <1>13, <2>1, <2>3
    <3>2. Dialogue!End(n)
      BY <1>5, <2>1, <3>1 DEF Dialogue!End, Told, Outcome
    <3> QED
      BY <3>2 DEF Dialogue!Next
  <2> QED
    BY <2>2, <2>3
<1>14. CASE x.heard = d.heard /\ x.ended # d.ended /\ x.ended = NOT_ENDED /\ c = 0
  <2>1. Told' = Told /\ Told[n] = << >>
    <3>1. d.heard \in Seq(PDU) /\ Len(d.heard) = 0
      BY <1>2, <1>14, CountType DEF Count
    <3> QED
      BY <1>5, <1>6, <1>14, <3>1
  <2>2. d.ended # SUCCESS
    <3>1. SUFFICES ASSUME d.ended = SUCCESS PROVE FALSE
      OBVIOUS
    <3>2. ~Quiet
      BY <3>1 DEF Quiet, Unfinished
    <3>3. Count(dev[Dev]) = 6
      BY <3>2 DEF AInv, OInv, Ends
    <3>4. Count(dev[Prov]) >= 4
      BY <3>3, AllHeard
    <3> QED
      BY <1>14, <3>3, <3>4 DEF Node
  <2>3. Outcome[n] \in TIMEOUT .. OPEN_TIMEOUT
    BY <1>6, <1>11, <1>14, <2>2
  <2>4. Dialogue!Reopen(n)
    BY <1>5, <1>14, <2>1, <2>3 DEF Dialogue!Reopen, Told, Outcome
  <2> QED
    BY <2>4 DEF Dialogue!Next
<1>15. CASE /\ x.heard = Append(d.heard, Line(m)[c + 1])
            /\ x.ended = d.ended /\ d.state # IDLE
  <2>1. Outcome[n] = NOT_ENDED /\ Outcome' = Outcome
    BY <1>5, <1>6, <1>9, <1>15
  <2>2. Way(n, d, e, q[m], q[n])
    BY DEF OInv, Ways
  <2>3. Heard(n, d, e)
    BY <2>2 DEF Way
  <2>4. b <= May(n, c)
    BY <2>3 DEF Heard
  <2>5. Heard(m, e, x)
    BY DEF Ordered, Result
  <2>6. Count(x) = c + 1
    <3>1. d.heard \in Seq(PDU) /\ x.heard \in Seq(PDU)
      BY <1>2, CountType
    <3> QED
      BY <1>15, <3>1 DEF Count
  <2>7. c + 1 <= Last(m) /\ c + 1 <= May(m, b)
    BY <2>5, <2>6 DEF Heard
  <2>8. c < Last(m)
    BY <1>1, <1>7, <2>7 DEF Last
  <2>9. c + b < Len(Script) /\ Script[c + b + 1] = To(n, Line(m)[c + 1])
    BY <1>7, <2>4, <2>7, <2>8, NextInScript
  <2> HIDE DEF c, b, m, d
  <2>10. /\ Script[Dialogue!Position + 1].to = n
         /\ Script[Dialogue!Position + 1].pdu = Line(m)[c + 1]
         /\ Dialogue!Position < Len(Script)
    BY <1>8, <2>9 DEF To
  <2>11. Told' = [Told EXCEPT ![n] = Append(@, Script[Dialogue!Position + 1].pdu)]
    BY <1>5, <1>6, <1>15, <2>10
  <2>12. Dialogue!Deliver(n)
    BY <2>1, <2>10, <2>11 DEF Dialogue!Deliver, Told, Outcome
  <2> QED
    BY <2>12 DEF Dialogue!Next
<1> QED
  BY <1>2, <1>12, <1>13, <1>14, <1>15 DEF Hears

\* Every step is one of the dialogue, or is not seen there.
LEMMA DialogueStep ==
  ASSUME OneLink, TypeOK, SInv, AllNumbered, NumbersLast, DevNumbersLast,
         AInv, AInv', OInv, OInv', [Next]_vars
  PROVE  [Dialogue!Next]_<<Told, Outcome>>
<1>1. CASE \E n \in Node : Handle(n)
  <2>1. PICK n \in Node : Handle(n)
    BY <1>1
  <2>2. PICK x : Ordered(n, x)
    BY <2>1, HandleOrder
  <2>3. x \in Device
    BY <2>2 DEF Ordered, Result
  <2> QED
    BY <2>2, <2>3, HandlerTalks
<1>2. CASE Connect
  <2>1. dev \in [Node -> Device] /\ session \in Nat /\ Prov \in Node /\ Opened
    BY DEF TypeOK, Node, OInv
  <2>2. session = 0
    BY <1>2, <2>1, BoundsAssumption DEF Connect, OneLink
  <2>3. dev[Prov].heard = << >> /\ dev[Prov].ended = NOT_ENDED /\ dev[Prov] \in Device
    BY <2>1, <2>2 DEF Opened
  <2>4. PICK a \in Addrs :
          dev' = [dev EXCEPT ![Prov] =
                    Arm([Created(dev[Prov], a) EXCEPT !.link = session + 1, !.tx = 255,
                           !.acked = 0, !.state = LINK_OPENING], "retry")]
    BY <1>2 DEF Connect
  <2> DEFINE c == Created(dev[Prov], a)
             d == Arm([c EXCEPT !.link = session + 1, !.tx = 255, !.acked = 0,
                                !.state = LINK_OPENING], "retry")
  <2>5. c.heard = << >> /\ c.ended = NOT_ENDED /\ c \in Device
    <3>1. c \in Device
      BY <2>3, ResetEvolves DEF Evolves
    <3> QED
      BY <2>3, <3>1 DEF Created, Zeroed, Device
  <2> HIDE DEF c
  <2>6. d.heard = << >> /\ d.ended = NOT_ENDED
    BY <2>5 DEF Arm, Device
  <2>7. dev' = [dev EXCEPT ![Prov] = d]
    BY <2>4 DEF c
  <2> HIDE DEF d
  <2>8. \A n \in Node : dev'[n].heard = dev[n].heard /\ dev'[n].ended = dev[n].ended
    BY <2>1, <2>3, <2>6, <2>7
  <2> QED
    BY <2>8 DEF Told, Outcome
<1>3. CASE UNCHANGED dev
  BY <1>3 DEF Told, Outcome
<1> QED
  BY <1>1, <1>2, <1>3 DEF Next, Fire, Lose, Overhear, vars

\* The order of a session is kept for ever.
LEMMA AlwaysOrdered ==
  ASSUME OneLink
  PROVE  Spec /\ []NumbersLast /\ []DevNumbersLast
           => [](TypeOK /\ AInv /\ SInv /\ AllNumbered /\ OInv)
<1>1. Foreign /\ \A p \in Overheard : ~Finishing(p)
  BY DEF OneLink, Foreign
<1>2. Init => TypeOK /\ AInv /\ SInv /\ AllNumbered /\ OInv
  BY InitHolds, InitGood, InitNumbered, InitOrder
<1>3. /\ TypeOK /\ AInv /\ SInv /\ AllNumbered /\ OInv
      /\ NumbersLast /\ DevNumbersLast /\ [Next]_vars
      => TypeOK' /\ AInv' /\ SInv' /\ AllNumbered' /\ OInv'
  BY <1>1, NextPreserves, NextGood, NextNumbered, NextOrder
<1> QED
  BY <1>2, <1>3, PTL DEF Spec

\* AckHonest: whoever receives an acknowledgement may rely on the PDU having
\* been accepted, or on the procedure having been given up, in the one session
\* of a link of which the bearer refuses no acknowledgement.
THEOREM AcksHonest ==
  ASSUME OneLink
  PROVE  Spec /\ []NumbersLast /\ []DevNumbersLast => []AckHonest
<1>1. TypeOK /\ OInv => AckHonest
  <2> SUFFICES ASSUME TypeOK, OInv, NEW n \in Node, NEW j \in DOMAIN q[n], q[n][j].kind = "trans_ack"
               PROVE  \E s \in dev[n].sent :
                        /\ s[1] = q[n][j].tn
                        /\ \/ \E k \in DOMAIN dev[Peer(n)].heard : dev[Peer(n)].heard[k] = s[2]
                           \/ dev[Peer(n)].state \in {IDLE, FAILED, LINK_CLOSING}
    BY DEF AckHonest
  <2> DEFINE d == dev[n]
             e == dev[Peer(n)]
  <2>1. Heard(n, d, e) /\ Receipt(n, d, e, q[n][j].tn)
    BY DEF OInv, Ways, Way, Receipts
  <2>2. CASE Over(e)
    BY <2>1, <2>2 DEF Receipt, Over
  <2>3. ASSUME NEW i \in 1 .. Count(e), q[n][j].tn = Num(n, i)
        PROVE  \E s \in d.sent : s[1] = q[n][j].tn /\ \E k \in DOMAIN e.heard : e.heard[k] = s[2]
    <3>1. Entry(n, i) \in d.sent /\ e.heard[i] = Line(n)[i]
      BY <2>1 DEF Heard
    <3>2. i \in DOMAIN e.heard
      BY Peers, CountType DEF TypeOK
    <3> QED
      BY <2>3, <3>1, <3>2 DEF Entry
  <2> QED
    BY <2>1, <2>2, <2>3 DEF Receipt
<1> QED
  BY <1>1, AlwaysOrdered, PTL

\* InOrder: the applications of the two sides see the provisioning dialogue:
\* the PDUs reach them in the order of the script and once each, whatever is
\* lost or sent twice and however timeouts fall, and neither is told of success
\* before the device has taken the provisioning data.
THEOREM DialogueKept ==
  ASSUME OneLink
  PROVE  Spec /\ []NumbersLast /\ []DevNumbersLast => InOrder
<1>1. Init => Dialogue!Init
  BY DEF Init, Dialogue!Init
<1>2. OneLink
  OBVIOUS
<1>3. /\ TypeOK /\ AInv /\ SInv /\ AllNumbered /\ OInv /\ AInv' /\ OInv'
      /\ NumbersLast /\ DevNumbersLast /\ [Next]_vars
      => [Dialogue!Next]_<<[n \in Node |-> dev[n].heard], [n \in Node |-> dev[n].ended]>>
  BY <1>2, DialogueStep DEF Told, Outcome
<1> QED
  BY <1>1, <1>3, AlwaysOrdered, PTL DEF Spec, InOrder, Dialogue!Spec
=============================================================================
