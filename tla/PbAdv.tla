------------------------------- MODULE PbAdv -------------------------------
(***************************************************************************)
(* Provisioning over the advertising bearer: a provisioner and a device    *)
(* that run mesh/provision/meshx_pb_adv.c (link, transactions, timer) with *)
(* mesh/provision/meshx_prov.c (the provisioning state machine) above it   *)
(* and the application callbacks of tests/ above that.  The layers call    *)
(* each other synchronously inside one handler, so one handler, with every *)
(* call it makes, is one step.                                             *)
(*                                                                         *)
(* Each node reads one FIFO, q[n]: the message queue through which its     *)
(* receive thread and its timer thread feed the single mesh thread.        *)
(***************************************************************************)
EXTENDS Integers, Sequences, FiniteSets

CONSTANTS
  MaxSessions,   \* bound: how many times the user asks to connect
  MaxQ,          \* bound: packets beyond this many queued for a node are lost
  MaxTimeouts,   \* bound: unprocessed timeouts of one node
  MaxNoise,     \* bound: packets lost, and packets of other links heard
  OpenRetries,   \* MESHX_LINK_LOSS_TIME / MESHX_LINK_OPEN_RETRY_PERIOD  (3000)
  TransRetries,  \* MESHX_TRANS_LOSS_TIME / MESHX_TRANS_RETRY_PERIOD     (100)
  CloseRetries,  \* MESHX_LINK_CLOSE_TIME / MESHX_LINK_CLOSE_RETRY_PERIOD (4)
  Rejectable,    \* PDUs whose content a receiver may find invalid
  Overheard,     \* packets of other links heard on the shared medium
  SendMayFail,   \* whether the bearer may refuse an acknowledgement
  Patient,       \* whether a retry period outlasts the peer's answer
  Addrs          \* addresses the allocator hands out for a link object

ASSUME BoundsAssumption ==
  /\ MaxSessions \in Nat /\ MaxQ \in Nat /\ MaxTimeouts \in Nat /\ MaxNoise \in Nat
  /\ OpenRetries \in Nat /\ TransRetries \in Nat /\ CloseRetries \in Nat
  /\ SendMayFail \in BOOLEAN /\ Patient \in BOOLEAN
  /\ Addrs # {}

Prov == "prov"
Dev == "dev"
Node == {Prov, Dev}
Peer(n) == IF n = Prov THEN Dev ELSE Prov

(***************************************************************************)
(* meshx_prov_state_t.  A PDU has the number of the state it puts its      *)
(* sender in.  IDLE also stands for "no device object": an object is never *)
(* left IDLE by the handler that creates it.                               *)
(***************************************************************************)
IDLE == 0
LINK_OPENING == 1
LINK_OPENED == 2
INVITE == 3
CAPABILITES == 4
START == 5
PUBLIC_KEY == 6
INPUT_COMPLETE == 7
CONFIRMATION == 8
RANDOM == 9
DATA == 10
COMPLETE == 11
FAILED == 12
LINK_CLOSING == 13
State == 0 .. 13
PDU == INVITE .. FAILED
NONE == 0

\* Why a link ends: the close reasons, and the link open timeout.
SUCCESS == 0
TIMEOUT == 1
FAIL == 2
LINK_LOSS == 3
OPEN_TIMEOUT == 4
NOT_ENDED == 5
Reason == SUCCESS .. LINK_LOSS
WireReasons == SUCCESS .. FAIL
Ending == SUCCESS .. NOT_ENDED

Byte == 0 .. 255
Link == Nat

\* Segments of a PDU: 20 bytes in the start packet, 23 in each continuation.
LastSeg(pdu) == CASE pdu = PUBLIC_KEY -> 2 [] pdu = DATA -> 1 [] OTHER -> 0

ASSUME RejectableAssumption == Rejectable \subseteq PDU

-----------------------------------------------------------------------------
(* Packets and timeouts *)

LinkOpenPkt(l, uuid) == [kind |-> "open", link |-> l, uuid |-> uuid]
LinkAckPkt(l) == [kind |-> "link_ack", link |-> l]
LinkClosePkt(l, why) == [kind |-> "close", link |-> l, reason |-> why]
SegPkt(l, tn, pdu, i) == [kind |-> "seg", link |-> l, tn |-> tn, pdu |-> pdu, seg |-> i]
TransAckPkt(l, tn) == [kind |-> "trans_ack", link |-> l, tn |-> tn]
TimeoutMsg(a) == [kind |-> "timeout", addr |-> a]

Uuid == {Dev, "other"}
Packet == [kind : {"open"}, link : Link, uuid : Uuid]
            \cup [kind : {"link_ack"}, link : Link]
            \cup [kind : {"close"}, link : Link, reason : WireReasons]
            \cup [kind : {"seg"}, link : Link, tn : Byte, pdu : PDU, seg : 0 .. 2]
            \cup [kind : {"trans_ack"}, link : Link, tn : Byte]
Message == Packet \cup [kind : {"timeout"}, addr : Addrs]

ASSUME OverheardAssumption == Overheard \subseteq Packet

VARIABLES
  dev,      \* the PB-ADV object of each node, with what the handlers logged
  q,        \* message queue of each node's mesh thread
  session,  \* connect commands issued so far, also the latest link id
  noise     \* packets lost and packets of other links heard so far
vars == <<dev, q, session, noise>>

(***************************************************************************)
(* meshx_pb_adv_dev_t.  timer merges timer_state and timer_delay_type;     *)
(* rxpdu is NONE when trans_data_len is 0; got holds the segments whose    *)
(* recv_seg bit is clear, each with the PDU it was cut from (the fcs check *)
(* compares them).  The last line is not in the object: packets handed to  *)
(* the bearer in this step, the PDUs accepted (but for FAILED, which the   *)
(* state shows) and the (number, PDU) pairs sent in the latest session,    *)
(* how that session ended, the node's UDB beacon, and whether it ever      *)
(* accepted provisioning data.                                             *)
(***************************************************************************)
Timer == {"delay_ack", "delay_pdu", "monitor", "retry"}
Device ==
  [state : State, link : Link, tx : Byte, rx : Byte, acked : Byte,
   retry : Nat, armed : BOOLEAN, timer : Timer, reason : Reason,
   rxpdu : PDU \cup {NONE}, got : SUBSET ((0 .. 2) \X PDU), addr : Addrs,
   out : Seq(Packet), heard : Seq(PDU), sent : SUBSET (Byte \X PDU),
   ended : Ending, udb : BOOLEAN, provisioned : BOOLEAN]

\* A zeroed object at address a that keeps d's log.
Zeroed(d, a) ==
  [d EXCEPT !.state = IDLE, !.link = 0, !.tx = 0, !.rx = 0, !.acked = 0,
            !.retry = 0, !.armed = FALSE, !.timer = "delay_ack",
            !.reason = SUCCESS, !.rxpdu = NONE, !.got = {}, !.addr = a]

\* meshx_prov_create_device for a node that has no object yet.
Created(d, a) == [Zeroed(d, a) EXCEPT !.heard = <<>>, !.sent = {}, !.ended = NOT_ENDED]

\* End of a session: notify the application, then delete the object.
Deleted(d, why) == [Zeroed(d, d.addr) EXCEPT !.ended = why]

Emit(d, pkts) == [d EXCEPT !.out = @ \o pkts]
Arm(d, t) == [d EXCEPT !.timer = t, !.armed = TRUE]

-----------------------------------------------------------------------------
(* Sending provisioning PDUs *)

\* meshx_prov_require_trans_num and meshx_dev_require_trans_num, on a uint8_t.
ProvNextTn(tn) == IF (tn + 1) % 256 > 127 THEN 0 ELSE (tn + 1) % 256
DevNextTn(tn) == IF (tn + 1) % 256 = 0 THEN 128 ELSE (tn + 1) % 256

\* Mutant: the public key goes out under the number of the previous PDU.
NextTnReused(n, tn, pdu) ==
  CASE pdu = PUBLIC_KEY -> tn
    [] pdu = INVITE \/ (n = Prov /\ pdu \in {CONFIRMATION, RANDOM}) -> ProvNextTn(tn)
    [] OTHER -> DevNextTn(tn)

\* Which of the two the send function of a PDU calls.
NextTn(n, tn, pdu) ==
  IF pdu = INVITE \/ (n = Prov /\ pdu \in {PUBLIC_KEY, CONFIRMATION, RANDOM})
    THEN ProvNextTn(tn) ELSE DevNextTn(tn)

\* The states in which meshx_prov_<pdu> accepts the call.
MaySend(state, pdu) ==
  CASE pdu = PUBLIC_KEY -> state \in START .. PUBLIC_KEY
    [] pdu = INPUT_COMPLETE -> state \in PUBLIC_KEY .. INPUT_COMPLETE
    [] pdu = CONFIRMATION -> state \in PUBLIC_KEY .. CONFIRMATION
    [] pdu = RANDOM -> state \in CONFIRMATION .. RANDOM
    [] pdu = FAILED -> state >= INVITE /\ state \notin {COMPLETE, FAILED}
    [] pdu = DATA -> state = RANDOM
    [] OTHER -> state = pdu - 1     \* INVITE, CAPABILITES, START, COMPLETE

\* Mutant: the state is not advanced before the PDU is scheduled.
SendPduKeepsState(n, d, pdu) ==
  IF MaySend(d.state, pdu)
    THEN Arm([d EXCEPT !.tx = NextTn(n, d.tx, pdu)], "delay_pdu")
    ELSE d

\* meshx_prov_<pdu> and meshx_pb_adv_<pdu>: the PDU goes out after a delay.
SendPdu(n, d, pdu) ==
  IF MaySend(d.state, pdu)
    THEN Arm([d EXCEPT !.state = pdu, !.tx = NextTn(n, d.tx, pdu)], "delay_pdu")
    ELSE d

\* pb_adv_send_trans: all segments of the PDU of the current state.
Segments(d) == [i \in 1 .. LastSeg(d.state) + 1 |-> SegPkt(d.link, d.tx, d.state, i - 1)]
EmitPdu(d) == [Emit(d, Segments(d)) EXCEPT !.sent = @ \cup {<<d.tx, d.state>>}]

-----------------------------------------------------------------------------
(* Closing a link *)

\* Mutant: the internal reason goes on the air.
WireReasonRaw(why) == why

\* meshx_pb_adv_link_close; a link loss is announced as a timeout.
WireReason(why) == IF why = LINK_LOSS THEN TIMEOUT ELSE why
LinkClose(d, why) ==
  IF d.state <= LINK_OPENING
    THEN d
    ELSE Arm(Emit([d EXCEPT !.state = LINK_CLOSING, !.reason = why, !.retry = 0],
                  <<LinkClosePkt(d.link, WireReason(why))>>), "retry")

-----------------------------------------------------------------------------
(* Processing a received provisioning PDU *)

\* What library and application send on accepting a PDU, if anything.
Answer(n, pdu) ==
  CASE n = Dev /\ pdu = INVITE -> CAPABILITES
    [] n = Dev /\ pdu \in {PUBLIC_KEY, CONFIRMATION, RANDOM} -> pdu
    [] n = Dev /\ pdu = DATA -> COMPLETE
    [] n = Prov /\ pdu = CAPABILITES -> START
    [] n = Prov /\ pdu = PUBLIC_KEY -> CONFIRMATION
    [] n = Prov /\ pdu = CONFIRMATION -> RANDOM
    [] n = Prov /\ pdu = RANDOM -> DATA
    [] OTHER -> NONE

Accept(d, pdu) ==
  [d EXCEPT !.state = pdu, !.heard = IF pdu = FAILED THEN @ ELSE Append(@, pdu),
            !.provisioned = @ \/ pdu = DATA]

\* The states in which meshx_prov_pdu_process accepts a PDU.
MayAccept(state, pdu) == pdu = FAILED \/ state <= pdu

\* meshx_prov_pdu_process; valid is the outcome of the content checks.
ProvPduProcess(n, d, pdu, valid) ==
  IF pdu = NONE \/ ~MayAccept(d.state, pdu) \/ ~valid
    THEN SendPdu(n, d, FAILED)
    ELSE IF Answer(n, pdu) = NONE
           THEN Accept(d, pdu)
           ELSE SendPdu(n, Accept(d, pdu), Answer(n, pdu))

Verdicts(pdu) == IF pdu \in Rejectable THEN BOOLEAN ELSE {TRUE}

-----------------------------------------------------------------------------
(* Timeout handlers *)

ValidPeerTn(n, tn) == (n = Dev) <=> (tn <= 127)

\* meshx_pb_adv_handle_delay, acknowledgement due.
AckAndProcess(n, d, acked, valid) ==
  LET a == IF acked THEN [Emit(d, <<TransAckPkt(d.link, d.rx)>>) EXCEPT !.acked = d.rx] ELSE d
      b == Arm([a EXCEPT !.rxpdu = NONE], "monitor")
  IN  IF ValidPeerTn(n, d.rx)
        THEN ProvPduProcess(n, b, d.rxpdu, valid)
        ELSE Arm([b EXCEPT !.tx = DevNextTn(@)], "delay_pdu")

\* meshx_pb_adv_handle_delay, PDU due.
FirstSend(d) == Arm([EmitPdu(d) EXCEPT !.retry = 0], "retry")

\* Mutant: the timer is stopped after the close has started it.
LinkLossStopsLast(d) == [LinkClose(d, LINK_LOSS) EXCEPT !.armed = FALSE]

\* meshx_pb_adv_handle_link_loss
LinkLoss(d) == LinkClose([d EXCEPT !.armed = FALSE], LINK_LOSS)

\* meshx_pb_adv_handle_retry
RetryOpen(d) ==
  LET e == Emit(d, <<LinkOpenPkt(d.link, Dev)>>)
  IN  IF d.retry + 1 > OpenRetries THEN Deleted(e, OPEN_TIMEOUT) ELSE [e EXCEPT !.retry = @ + 1]

\* Mutant: retry_time is not advanced.
RetryCloseForever(d) ==
  IF d.retry + 1 > CloseRetries
    THEN Deleted(d, d.reason)
    ELSE Emit(d, <<LinkClosePkt(d.link, WireReason(d.reason))>>)

RetryClose(d) ==
  LET e == Emit(d, <<LinkClosePkt(d.link, WireReason(d.reason))>>)
  IN  IF d.retry + 1 > CloseRetries THEN Deleted(e, d.reason) ELSE [e EXCEPT !.retry = @ + 1]

RetryPdu(d) ==
  LET e == [EmitPdu(d) EXCEPT !.retry = @ + 1]
  IN  IF e.retry > TransRetries THEN LinkClose(e, TIMEOUT) ELSE e

Retry(d) ==
  CASE d.state = LINK_OPENING -> RetryOpen(d)
    [] d.state = LINK_CLOSING -> RetryClose(d)
    [] d.state \in INVITE .. COMPLETE -> RetryPdu(d)
    [] OTHER -> d

-----------------------------------------------------------------------------
(* Receive handlers.  meshx_find_prov_dev_by_link_id falls back to the     *)
(* last object of the list, so the link id of a packet selects nothing.    *)

\* meshx_pb_adv_link_ack
LinkAck(d, sent) ==
  IF sent
    THEN Arm(Emit([d EXCEPT !.state = LINK_OPENED, !.udb = FALSE], <<LinkAckPkt(d.link)>>), "monitor")
    ELSE d

\* meshx_pb_adv_recv_link_open, for the node whose uuid the packet names.
LinkOpened(d, l, a, sent) ==
  LET c == IF d.state = IDLE THEN Created(d, a) ELSE d
  IN  CASE c.state > LINK_OPENED -> c
        [] c.state = LINK_OPENED -> IF c.link = l THEN Emit(c, <<LinkAckPkt(l)>>) ELSE c
        [] OTHER -> LinkAck([c EXCEPT !.link = l, !.state = LINK_OPENING, !.tx = 127,
                                      !.acked = 255, !.rxpdu = NONE], sent)

\* meshx_pb_adv_recv_link_ack; the provisioner's application then invites.
LinkAcked(n, d) ==
  IF d.state \in {LINK_OPENING, LINK_OPENED}
    THEN LET e == Arm([d EXCEPT !.retry = 0, !.state = LINK_OPENED, !.udb = FALSE], "monitor")
         IN  IF n = Prov THEN SendPdu(n, e, INVITE) ELSE e
    ELSE d

\* Mutant: the reason in the packet is not looked at.
LinkClosedBlind(d, why) == IF d.state = IDLE THEN d ELSE Deleted(d, SUCCESS)

\* meshx_pb_adv_recv_link_close
LinkClosed(d, why) == IF d.state = IDLE THEN d ELSE Deleted(d, why)

Received(d, i) == \E s \in d.got : s[1] = i

\* meshx_pb_adv_recv_prov_pdu, called when no segment is missing.
Reassembled(d) ==
  IF d.state = FAILED
    THEN d
    ELSE IF \E s \in d.got : s[2] # d.rxpdu
           THEN [d EXCEPT !.rxpdu = NONE]
           ELSE Arm(d, "delay_ack")
IfComplete(d) == IF \A i \in 0 .. LastSeg(d.rxpdu) : Received(d, i) THEN Reassembled(d) ELSE d

\* Mutant: the number of the transaction in progress counts as acknowledged.
TransStartEager(d, p) ==
  IF d.state < LINK_OPENED \/ (d.rx # p.tn /\ d.rxpdu # NONE)
    THEN d
    ELSE IF d.rx = p.tn
           THEN Emit(d, <<TransAckPkt(d.link, d.rx)>>)
           ELSE IfComplete([d EXCEPT !.rxpdu = p.pdu, !.rx = p.tn, !.got = {<<0, p.pdu>>}])

\* Mutant: retransmissions are not recognised.
TransStartNoFilter(d, p) ==
  IF d.state < LINK_OPENED \/ d.rxpdu # NONE
    THEN d
    ELSE IfComplete([d EXCEPT !.rxpdu = p.pdu, !.rx = p.tn, !.got = {<<0, p.pdu>>}])

\* Mutant: a retransmission is dropped without repeating the acknowledgement.
TransStartNoReAck(d, p) ==
  IF d.state < LINK_OPENED \/ d.acked = p.tn \/ d.rxpdu # NONE
    THEN d
    ELSE IfComplete([d EXCEPT !.rxpdu = p.pdu, !.rx = p.tn, !.got = {<<0, p.pdu>>}])

\* meshx_pb_adv_recv_trans_start
TransStart(d, p) ==
  IF d.state < LINK_OPENED \/ (d.acked # p.tn /\ d.rxpdu # NONE)
    THEN d
    ELSE IF d.acked = p.tn
           THEN Emit(d, <<TransAckPkt(d.link, d.acked)>>)
           ELSE IfComplete([d EXCEPT !.rxpdu = p.pdu, !.rx = p.tn, !.got = {<<0, p.pdu>>}])

\* meshx_pb_adv_recv_trans_continue
Fits(d, p) ==
  d.rx = p.tn /\ d.rxpdu # NONE /\ p.seg <= LastSeg(d.rxpdu) /\ ~Received(d, p.seg)
TransContinue(d, p) ==
  IF d.state < LINK_OPENED \/ (d.acked # p.tn /\ ~Fits(d, p))
    THEN d
    ELSE IF d.acked = p.tn
           THEN Emit(d, <<TransAckPkt(d.link, d.acked)>>)
           ELSE IfComplete([d EXCEPT !.got = @ \cup {<<p.seg, p.pdu>>}])

\* meshx_pb_adv_recv_trans_ack and the TRANS_ACK notification.
TransAcked(n, d, tn) ==
  IF d.state = IDLE \/ d.tx # tn
    THEN d
    ELSE LET e == Arm([d EXCEPT !.retry = 0], "monitor")
         IN  CASE e.state = FAILED -> LinkClose(e, FAIL)
               [] e.state = COMPLETE -> LinkClose(e, SUCCESS)
               [] e.state = START /\ n = Prov -> SendPdu(n, e, PUBLIC_KEY)
               [] OTHER -> e

-----------------------------------------------------------------------------
(* Actions *)

\* The receiver's queue takes what one handler sent, or loses it when full.
Enqueue(s, pkts) == IF Len(s) + Len(pkts) > MaxQ THEN s ELSE s \o pkts

Is(n, kind) == q[n] # <<>> /\ Head(q[n]).kind = kind

\* Node n consumed the head of its queue and its object became d.
Step(n, d) ==
  /\ dev' = [dev EXCEPT ![n] = [d EXCEPT !.out = <<>>]]
  /\ q' = [q EXCEPT ![n] = Tail(@), ![Peer(n)] = Enqueue(@, d.out)]
  /\ UNCHANGED <<session, noise>>

SendResults == IF SendMayFail THEN BOOLEAN ELSE {TRUE}

RecvLinkOpen(n) ==
  /\ Is(n, "open")
  /\ IF Head(q[n]).uuid = n
       THEN \E a \in Addrs, sent \in SendResults :
              Step(n, LinkOpened(dev[n], Head(q[n]).link, a, sent))
       ELSE Step(n, dev[n])

RecvLinkAck(n) == Is(n, "link_ack") /\ Step(n, LinkAcked(n, dev[n]))

RecvLinkClose(n) == Is(n, "close") /\ Step(n, LinkClosed(dev[n], Head(q[n]).reason))

RecvTransStart(n) ==
  Is(n, "seg") /\ Head(q[n]).seg = 0 /\ Step(n, TransStart(dev[n], Head(q[n])))

RecvTransContinue(n) ==
  Is(n, "seg") /\ Head(q[n]).seg # 0 /\ Step(n, TransContinue(dev[n], Head(q[n])))

RecvTransAck(n) == Is(n, "trans_ack") /\ Step(n, TransAcked(n, dev[n], Head(q[n]).tn))

\* A timeout is for the object at the address it carries, if there is one.
TimeoutOf(n, t) ==
  /\ Is(n, "timeout")
  /\ dev[n].state # IDLE /\ Head(q[n]).addr = dev[n].addr
  /\ dev[n].timer = t

HandleDelayAck(n) ==
  /\ TimeoutOf(n, "delay_ack")
  /\ \E acked \in SendResults, valid \in Verdicts(dev[n].rxpdu) :
       Step(n, AckAndProcess(n, dev[n], acked, valid))

\* In any other state the code stops at MESHX_ASSERT(0).
HandleDelayPdu(n) ==
  TimeoutOf(n, "delay_pdu") /\ dev[n].state \in PDU /\ Step(n, FirstSend(dev[n]))

HandleRetry(n) == TimeoutOf(n, "retry") /\ Step(n, Retry(dev[n]))

HandleLinkLoss(n) == TimeoutOf(n, "monitor") /\ Step(n, LinkLoss(dev[n]))

HandleStaleObject(n) ==
  /\ Is(n, "timeout")
  /\ dev[n].state = IDLE \/ Head(q[n]).addr # dev[n].addr
  /\ Step(n, dev[n])

Handle(n) ==
  \/ RecvLinkOpen(n) \/ RecvLinkAck(n) \/ RecvLinkClose(n)
  \/ RecvTransStart(n) \/ RecvTransContinue(n) \/ RecvTransAck(n)
  \/ HandleDelayAck(n) \/ HandleDelayPdu(n) \/ HandleRetry(n)
  \/ HandleLinkLoss(n) \/ HandleStaleObject(n)

(***************************************************************************)
(* Timing.  A delay is 20 to 49 ms, a retransmission period 300 ms and the *)
(* link monitor 600 s.  Every exchange gives up before the monitor (open   *)
(* retries only just), so the monitor runs out only when no packet is in   *)
(* flight and nothing is due at either node.  No order is assumed between  *)
(* delays and retransmissions unless Patient.                              *)
(***************************************************************************)
Timeouts(s) == Cardinality({i \in DOMAIN s : s[i].kind = "timeout"})
AirQuiet == \A n \in Node : Timeouts(q[n]) = Len(q[n])
Delayed(n) == dev[n].armed /\ dev[n].timer \in {"delay_ack", "delay_pdu"}
Retrying(n) ==
  /\ dev[n].armed /\ dev[n].timer = "retry" /\ dev[n].state # FAILED
  /\ dev[n].state = LINK_OPENING => dev[n].retry < OpenRetries

MayExpire(n) ==
  CASE dev[n].timer = "monitor" -> AirQuiet /\ \A m \in Node : ~Delayed(m) /\ ~Retrying(m)
    [] dev[n].timer = "retry" /\ Patient /\ dev[n].state # LINK_CLOSING ->
         AirQuiet /\ \A m \in Node : ~Delayed(m)
    [] OTHER -> TRUE

\* The timer thread posts a timeout; the timer is periodic and stays armed.
Fire(n) ==
  /\ dev[n].armed /\ MayExpire(n)
  /\ Timeouts(q[n]) < MaxTimeouts
  /\ q' = [q EXCEPT ![n] = Append(@, TimeoutMsg(dev[n].addr))]
  /\ UNCHANGED <<dev, session, noise>>

\* The "conn" command with no link in progress; otherwise it is refused.
Connect ==
  /\ session < MaxSessions /\ dev[Prov].state = IDLE
  /\ session' = session + 1
  /\ \E a \in Addrs :
       LET d == [Created(dev[Prov], a) EXCEPT !.link = session + 1, !.tx = 255,
                                              !.acked = 0, !.state = LINK_OPENING]
       IN  dev' = [dev EXCEPT ![Prov] = Arm(d, "retry")]
  /\ q' = [q EXCEPT ![Dev] = Enqueue(@, <<LinkOpenPkt(session + 1, Dev)>>)]
  /\ UNCHANGED noise

\* The radio misses the oldest packet.
Lose(n) ==
  /\ q[n] # <<>> /\ ~Is(n, "timeout")
  /\ noise < MaxNoise /\ noise' = noise + 1
  /\ q' = [q EXCEPT ![n] = Tail(@)]
  /\ UNCHANGED <<dev, session>>

\* A packet of somebody else's link arrives.
Overhear(n) ==
  /\ noise < MaxNoise /\ noise' = noise + 1
  /\ \E p \in Overheard : q' = [q EXCEPT ![n] = Enqueue(@, <<p>>)]
  /\ UNCHANGED <<dev, session>>

Init ==
  /\ \E a \in Addrs :
       dev = [n \in Node |->
               [state |-> IDLE, link |-> 0, tx |-> 0, rx |-> 0, acked |-> 0, retry |-> 0,
                armed |-> FALSE, timer |-> "delay_ack", reason |-> SUCCESS, rxpdu |-> NONE,
                got |-> {}, addr |-> a, out |-> <<>>, heard |-> <<>>, sent |-> {},
                ended |-> NOT_ENDED, udb |-> n = Dev, provisioned |-> FALSE]]
  /\ q = [n \in Node |-> <<>>]
  /\ session = 0
  /\ noise = 0

Next == Connect \/ \E n \in Node : Handle(n) \/ Fire(n) \/ Lose(n) \/ Overhear(n)

Spec == Init /\ [][Next]_vars

\* The mesh thread keeps serving its queue and armed timers expire.
Fairness == \A n \in Node : WF_vars(Handle(n)) /\ WF_vars(Fire(n))
FairSpec == Spec /\ Fairness

-----------------------------------------------------------------------------
(* Properties *)

\* Every value stays in its C type's range and every queue holds messages.
TypeOK ==
  /\ dev \in [Node -> Device]
  /\ q \in [Node -> Seq(Message)]
  /\ session \in Nat /\ noise \in Nat

\* The receiver tells a retransmission from a new PDU by the transaction
\* number alone, so a session never sends two PDUs under one number.
TransNumUnambiguous ==
  \A n \in Node : \A s, t \in dev[n].sent : s[1] = t[1] => s[2] = t[2]

\* Whoever receives an acknowledgement may rely on the PDU having been
\* processed: the peer accepted it, or has given the procedure up.
AckHonest ==
  \A n \in Node : \A i \in DOMAIN q[n] : q[n][i].kind = "trans_ack" =>
    \E s \in dev[n].sent :
      /\ s[1] = q[n][i].tn
      /\ \/ \E j \in DOMAIN dev[Peer(n)].heard : dev[Peer(n)].heard[j] = s[2]
         \/ dev[Peer(n)].state \in {IDLE, FAILED, LINK_CLOSING}

\* MESHX_ASSERT(0), "should never reach here", in the delay handler: when a
\* PDU is due, the object is in the state of a PDU.
NoAssert ==
  \A n \in Node : dev[n].timer = "delay_pdu" => dev[n].state \in PDU

\* Neither side reports success, and the provisioner does not reach COMPLETE,
\* unless the device accepted the provisioning data.
Agreement ==
  \/ dev[Dev].provisioned
  \/ dev[Prov].state # COMPLETE /\ \A n \in Node : dev[n].ended # SUCCESS

\* Within one session the handlers deliver the provisioning PDUs in order and
\* once each, whatever is lost or sent twice.
To(n, pdu) == [to |-> n, pdu |-> pdu]
Script ==
  << To(Dev, INVITE), To(Prov, CAPABILITES), To(Dev, START), To(Dev, PUBLIC_KEY),
     To(Prov, PUBLIC_KEY), To(Dev, CONFIRMATION), To(Prov, CONFIRMATION),
     To(Dev, RANDOM), To(Prov, RANDOM), To(Dev, DATA), To(Prov, COMPLETE) >>
Dialogue == INSTANCE ProvDialogue WITH
  Party <- Node,
  Commit <- 10,
  Success <- SUCCESS, Failures <- TIMEOUT .. OPEN_TIMEOUT, Open <- NOT_ENDED,
  heard <- [n \in Node |-> dev[n].heard],
  outcome <- [n \in Node |-> dev[n].ended]
InOrder == Dialogue!Spec

\* A session is never left without a running timer: nothing else would end it
\* if the peer fell silent.
Supervised == \A n \in Node : dev[n].state # IDLE => dev[n].armed

\* A session that was opened at a node also ends there: no handshake or
\* retransmission goes on for ever.
SessionEnds == \A n \in Node : dev[n].state # IDLE ~> dev[n].state = IDLE

\* With timers that outlast the answers, one connect command provisions the
\* device and both sides report success, although a packet is lost.
Succeeds ==
  session = 1 ~> dev[Dev].provisioned /\ \A n \in Node : dev[n].ended = SUCCESS

-----------------------------------------------------------------------------
(* What comments and messages of the code promise and the code does not    *)
(* keep; README.md, section 5, tells how each is refuted.                  *)

\* A link loss means 600 s without any exchange: it is not declared while a
\* node is still delaying or retransmitting a PDU.
Exchanging(n) == Delayed(n) \/ (Retrying(n) /\ dev[n].state \in INVITE .. COMPLETE)
LossMeansSilence ==
  [][\A n \in Node :
       dev[n].state # LINK_CLOSING /\ dev'[n].state = LINK_CLOSING /\ dev'[n].reason = LINK_LOSS
         => \A m \in Node : ~Exchanging(m)]_vars

\* A PDU whose segments have all arrived waits for nothing but the delay before
\* its acknowledgement, which processes it and frees the reassembly buffer.
ReceivedIsPending ==
  \A n \in Node :
    /\ dev[n].state \in LINK_OPENED .. COMPLETE
    /\ dev[n].rxpdu # NONE /\ \A i \in 0 .. LastSeg(dev[n].rxpdu) : Received(dev[n], i)
    => dev[n].armed /\ dev[n].timer = "delay_ack"

\* LINK_CLOSE ends the session whose link id it carries and no other.
CloseIsOwn ==
  [][\A n \in Node : Is(n, "close") /\ dev[n].state # IDLE /\ dev'[n].state = IDLE
       => Head(q[n]).link = dev[n].link]_vars

\* An unprovisioned device without a link can be found: its UDB beacon is on.
Discoverable ==
  dev[Dev].state = IDLE /\ ~dev[Dev].provisioned => dev[Dev].udb
=============================================================================
