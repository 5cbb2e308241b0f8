----------------------------- MODULE LowerTrans -----------------------------
(***************************************************************************)
(* Segmented messages, mesh/transport/meshx_lower_trans.c: the transmit    *)
(* and the receive tasks of every node, the block acknowledgements between *)
(* them and their three kinds of timers.                                   *)
(*                                                                         *)
(* A setting of the system has a script, the messages of all nodes in the  *)
(* order in which the upper transport hands them over, and says which      *)
(* faults happen.  A message is named by its place in the script, which    *)
(* also stands for the sequence number that authenticates it.  The numbers *)
(* of one message stay within 8192 of each other (IvIndex has the check),  *)
(* memory suffices for what is sent, and the segments of a message agree   *)
(* on what they say of it, so the comparisons of opcode, key and length    *)
(* never fail.                                                             *)
(*                                                                         *)
(* The medium is air: a packet in it may be received late, out of order or *)
(* never, and more than once where Duplicates says so.                     *)
(***************************************************************************)
EXTENDS Integers, Sequences, FiniteSets, SequencesExt

CONSTANTS
  Node,            \* nodes
  Group,           \* destinations that are no node
  Settings,        \* the settings, one of which is in force
  TxSlots,         \* trans_tx_task_num                              (3)
  RxSlots,         \* trans_rx_task_num                              (3)
  Retries,         \* trans_tx_retry_times                           (2)
  MaxLen           \* bound: the length of a receive task is counted up to here

TxSlot == 1 .. TxSlots
RxSlot == 1 .. RxSlots
NONE == 0

MessageOf == [src : Node, dst : Node \cup Group, last : 0 .. 31]

ASSUME LowerTransAssumption ==
  /\ Settings \subseteq [script : Seq(MessageOf), stale : BOOLEAN, timerFails : BOOLEAN,
                         rplRejects : BOOLEAN, duplicates : BOOLEAN]
  /\ \A s \in Settings : \A m \in DOMAIN s.script : s.script[m].src # s.script[m].dst
  /\ TxSlots \in Nat \ {0} /\ RxSlots \in Nat \ {0} /\ Retries \in Nat /\ MaxLen \in Nat \ {0}

VARIABLES
  setting,  \* the setting in force
  tx,       \* transmit tasks of a node: idle, active, pending, and their content
  rx,       \* receive tasks of a node: idle, active, and their content
  air,      \* segments and acknowledgements on their way
  timers,   \* timers running
  posted,   \* timeouts in the queues of the nodes
  outcome,  \* what became of each message
  got,      \* lengths, in segments, with which a message was delivered
  fault     \* what stopped a node
vars == <<setting, tx, rx, air, timers, posted, outcome, got, fault>>

Script == setting.script              \* messages: [src, dst, last], last the number of the last segment
StaleTimeouts == setting.stale        \* whether a timeout may wait in the queue behind a packet
TimerFails == setting.timerFails      \* whether the system may refuse a timer, or memory to receive
RplRejects == setting.rplRejects      \* whether the replay list may refuse a PDU
Duplicates == setting.duplicates      \* whether a packet that was received may come again
Msg == DOMAIN Script
Seg(m) == 0 .. Script[m].last
Segs == UNION {Seg(m) : m \in Msg}

\* stored: the task holds the message (ppdu is not NULL).
TxTask == [msg : Msg \cup {NONE}, acked : SUBSET Segs, tries : 0 .. Retries + 1, stored : BOOLEAN]
\* dead: the acknowledgement timer it has the handle of is deleted.
RxTask == [msg : Msg \cup {NONE}, missing : SUBSET Segs, acked : SUBSET Segs, len : 0 .. MaxLen, dead : BOOLEAN]

SegmentPkt(m, i) == [kind |-> "segment", msg |-> m, seg |-> i, bits |-> {}]
AckPkt(m, bits) == [kind |-> "ack", msg |-> m, seg |-> 0, bits |-> bits]

\* own: the task still has the handle of the timer.
Timer(n, kind, t, own) == [node |-> n, kind |-> kind, slot |-> t, own |-> own]
Own(n, kind, t) == Timer(n, kind, t, TRUE)

TxState == [idle : Seq(TxSlot), active : SUBSET TxSlot, pending : Seq(TxSlot), task : [TxSlot -> TxTask]]
RxState == [idle : Seq(RxSlot), active : SUBSET RxSlot, task : [RxSlot -> RxTask]]
Slot(kind) == IF kind = "retry" THEN TxSlot ELSE RxSlot

TypeOK ==
  /\ setting \in Settings
  /\ tx \in [Node -> TxState] /\ rx \in [Node -> RxState]
  /\ air \subseteq [kind : {"segment", "ack"}, msg : Msg, seg : Segs, bits : SUBSET Segs]
  /\ \A tm \in timers : \E n \in Node, kind \in {"retry", "ack", "incomplete"}, own \in BOOLEAN :
       \E t \in Slot(kind) : tm = Timer(n, kind, t, own)
  /\ \A to \in posted : \E n \in Node, kind \in {"retry", "ack", "incomplete"} :
       \E t \in Slot(kind) : to = <<n, kind, t>>
  /\ outcome \in [Msg -> {"new", "refused", "waiting", "sending", "acked", "ended"}]
  /\ got \in [Msg -> SUBSET (0 .. MaxLen)]
  /\ fault \in [Node -> {"none", "assert", "null", "freed"}]

Init ==
  /\ setting \in Settings
  /\ tx = [n \in Node |-> [idle |-> [i \in TxSlot |-> i], active |-> {}, pending |-> <<>>,
           task |-> [t \in TxSlot |-> [msg |-> NONE, acked |-> {}, tries |-> 0, stored |-> FALSE]]]]
  /\ rx = [n \in Node |-> [idle |-> [i \in RxSlot |-> i], active |-> {},
           task |-> [t \in RxSlot |-> [msg |-> NONE, missing |-> {}, acked |-> {}, len |-> 0, dead |-> FALSE]]]]
  /\ air = {} /\ timers = {} /\ posted = {}
  /\ outcome = [m \in Msg |-> "new"]
  /\ got = [m \in Msg |-> {}]
  /\ fault = [n \in Node |-> "none"]

Up(n) == fault[n] = "none"
Dst(x, t) == Script[x.task[t].msg].dst

-----------------------------------------------------------------------------
(* Transmission.  x is the tx record of a node.                            *)

\* What is on its way once a packet is received.
Received(p) == IF Duplicates THEN air ELSE air \ {p}

SendSegments(task) == {SegmentPkt(task.msg, i) : i \in Seg(task.msg) \ task.acked}

\* meshx_lower_trans_tx_task_run, with t in no list.  A task that gets no
\* timer is finished, and leaving a list it is not in is an assertion.
Run(n, x, t, running, left) ==
  \/ /\ tx' = [tx EXCEPT ![n] = [x EXCEPT !.active = @ \cup {t}]]
     /\ air' = left \cup SendSegments(x.task[t])
     /\ timers' = running \cup {Own(n, "retry", t)}
     /\ UNCHANGED fault
  \/ /\ TimerFails
     /\ tx' = [tx EXCEPT ![n] = x]
     /\ fault' = [fault EXCEPT ![n] = "assert"]
     /\ timers' = running
     /\ air' = left

StopTimer(n, t) == timers \ {Own(n, "retry", t)}

\* Mutant: a task is put into the idle list without leaving the other.
ReleaseInBoth(x, t) == [x EXCEPT !.idle = Append(@, t), !.task[t].stored = FALSE]

\* meshx_lower_trans_tx_task_release
Release(x, t) ==
  [x EXCEPT !.active = @ \ {t}, !.pending = RemoveFirst(@, t), !.idle = Append(RemoveFirst(@, t), t),
            !.task[t].stored = FALSE]

Blocked(x, t) == \E u \in x.active : Dst(x, u) = Dst(x, t)

\* Mutant: the tasks that wait are not looked at.
NoneReady(x) == NONE

\* Mutant: a task waiting is started without a look at its destination.
AnyReady(x) == IF x.pending = <<>> THEN NONE ELSE Head(x.pending)

FirstReady(x) ==
  LET R == {i \in DOMAIN x.pending : ~Blocked(x, x.pending[i])} IN
  IF R = {} THEN NONE ELSE x.pending[CHOOSE i \in R : \A j \in R : i <= j]

\* meshx_lower_trans_tx_task_finish
Finish(n, x, t, how, left) ==
  LET y == Release(x, t)
      u == FirstReady(y)
      m == x.task[t].msg
      over == IF outcome[m] \in {"waiting", "sending"} THEN [outcome EXCEPT ![m] = how] ELSE outcome IN
  IF u = NONE
  THEN /\ tx' = [tx EXCEPT ![n] = y]
       /\ timers' = StopTimer(n, t)
       /\ outcome' = over
       /\ air' = left
       /\ UNCHANGED fault
  ELSE /\ Run(n, [y EXCEPT !.pending = RemoveFirst(@, u)], u, StopTimer(n, t), left)
       /\ outcome' = [over EXCEPT ![x.task[u].msg] = "sending"]

\* meshx_lower_trans_send of a segmented message: process_seg_msg,
\* tx_task_request and tx_task_try.
Send(n, m) ==
  /\ Up(n) /\ Script[m].src = n
  /\ outcome[m] = "new" /\ \A k \in 1 .. m - 1 : outcome[k] # "new"
  /\ UNCHANGED <<setting, rx, posted, got>>
  /\ IF tx[n].idle = <<>>
     THEN outcome' = [outcome EXCEPT ![m] = "refused"] /\ UNCHANGED <<tx, air, timers, fault>>
     ELSE LET t == Head(tx[n].idle)
              x == [tx[n] EXCEPT !.idle = Tail(@),
                      !.task[t] = [msg |-> m, acked |-> {}, tries |-> 0, stored |-> TRUE]] IN
          IF Blocked(x, t)
          THEN /\ tx' = [tx EXCEPT ![n] = [x EXCEPT !.pending = Append(@, t)]]
               /\ outcome' = [outcome EXCEPT ![m] = "waiting"]
               /\ UNCHANGED <<air, timers, fault>>
          ELSE Run(n, x, t, timers, air) /\ outcome' = [outcome EXCEPT ![m] = "sending"]

\* Mutant: the timer is started for the first transmission only.
ResendOnce(n, x, t, left) ==
  /\ air' = left \cup SendSegments(x.task[t])
  /\ tx' = [tx EXCEPT ![n] = x]
  /\ timers' = timers \ {Own(n, "retry", t)}
  /\ UNCHANGED <<fault, outcome>>

\* Again the segments not acknowledged.  The message of a released task is
\* gone: its segments are copied from address zero.  A task that waits has
\* no timer to start.
Resend(n, x, t, left) ==
  /\ IF x.task[t].stored
     THEN /\ air' = left \cup SendSegments(x.task[t])
          /\ timers' = IF t \in x.active THEN timers \cup {Own(n, "retry", t)} ELSE timers
          /\ UNCHANGED fault
     ELSE fault' = [fault EXCEPT ![n] = "null"] /\ air' = left /\ UNCHANGED timers
  /\ tx' = [tx EXCEPT ![n] = x]
  /\ UNCHANGED outcome

\* Mutant: the retries are not counted against their limit.
AgainUnlimited(n, x, t) == Resend(n, [x EXCEPT !.task[t].tries = @ + 1], t, air)

\* meshx_lower_trans_handle_tx_timeout; the count is bounded for tasks that
\* are over their limit already.
Again(n, x, t) ==
  LET y == [x EXCEPT !.task[t].tries = IF @ > Retries THEN @ ELSE @ + 1] IN
  IF y.task[t].tries > Retries THEN Finish(n, y, t, "ended", air) ELSE Resend(n, y, t, air)

\* meshx_lower_trans_recv_block_ack
RecvAck(n, p) ==
  /\ p \in air /\ p.kind = "ack" /\ Up(n) /\ Script[p.msg].src = n
  /\ \E t \in tx[n].active :
       /\ tx[n].task[t].msg = p.msg
       /\ CASE p.bits = Seg(p.msg) -> Finish(n, tx[n], t, "acked", Received(p))
            [] p.bits = {} -> Finish(n, tx[n], t, "ended", Received(p))
            [] OTHER ->
                 LET x == [tx[n] EXCEPT !.task[t].tries = @ + 1] IN
                 IF x.task[t].tries > Retries THEN Finish(n, x, t, "ended", Received(p))
                 ELSE Resend(n, [x EXCEPT !.task[t].acked = p.bits], t, Received(p))
  /\ UNCHANGED <<setting, rx, posted, got>>

RetryTimeout(n, t) ==
  /\ Again(n, tx[n], t)
  /\ UNCHANGED <<rx, got>>

-----------------------------------------------------------------------------
(* Reception.  r is the rx record of a node.                               *)

Active(r, s) == {t \in r.active : Script[r.task[t].msg].src = s}

\* meshx_lower_trans_rx_task_release
RxRelease(r, t) == [r EXCEPT !.active = @ \ {t}, !.idle = Append(RemoveFirst(@, t), t)]
Unowned(n, t) == {Own(n, "ack", t), Own(n, "incomplete", t)}

\* Mutant: flags are set only where none is left from the former message.
StartIfClear(task, m) ==
  [task EXCEPT !.msg = m, !.missing = IF @ = {} THEN Seg(m) ELSE @, !.acked = {}, !.dead = FALSE]

\* What a task becomes for message m: flags of segments still missing from
\* its former use stay, so does the length received.
Start(task, m) == [task EXCEPT !.msg = m, !.missing = @ \cup Seg(m), !.acked = {}, !.dead = FALSE]

\* Timers whose handles are overwritten run on.
Disowned(lost) == {[tm EXCEPT !.own = @ /\ tm \notin lost] : tm \in timers}

Longer(task) ==
  IF Script[task.msg].last = 0 THEN 1 ELSE IF task.len < MaxLen THEN task.len + 1 ELSE MaxLen

\* Mutant: a segment is acknowledged as the whole message.
StoreAll(task, i) ==
  [task EXCEPT !.missing = @ \ {i}, !.acked = Seg(task.msg), !.len = Longer(task)]

\* A task of one segment is complete with it, whatever flags are left.
Store(task, i) ==
  [task EXCEPT !.missing = IF Script[task.msg].last = 0 THEN {} ELSE @ \ {i},
               !.acked = @ \cup {i},
               !.len = Longer(task)]

Acknowledge(m, bits, left) == air' = left \cup {AckPkt(m, bits)}

\* The task t of r takes segment p, tms being the timers that run.
TakeSegment(n, r, t, p, tms) ==
  LET old == r.task[t]
      task == Store(old, p.seg)
      s == [r EXCEPT !.task[t] = task] IN
  CASE old.missing = {} ->
         /\ Acknowledge(p.msg, old.acked, Received(p))
         /\ rx' = [rx EXCEPT ![n] = r] /\ timers' = tms /\ UNCHANGED got
    [] old.missing # {} /\ p.seg \notin old.missing ->
         /\ rx' = [rx EXCEPT ![n] = r] /\ timers' = tms /\ air' = Received(p) /\ UNCHANGED got
    [] p.seg \in old.missing /\ task.missing # {} ->
         /\ rx' = [rx EXCEPT ![n] = s]
         /\ timers' = tms \cup Unowned(n, t)
         /\ air' = Received(p)
         /\ UNCHANGED got
    [] p.seg \in old.missing /\ task.missing = {} ->
         \/ /\ Acknowledge(p.msg, task.acked, Received(p))
            /\ rx' = [rx EXCEPT ![n] = s]
            /\ timers' = (tms \ {Own(n, "ack", t)}) \cup {Own(n, "incomplete", t)}
            /\ got' = [got EXCEPT ![p.msg] = @ \cup {task.len}]
         \/ /\ RplRejects
            /\ Acknowledge(p.msg, {}, Received(p))
            /\ rx' = [rx EXCEPT ![n] = RxRelease(IF Script[p.msg].last = 0 THEN r ELSE s, t)]
            /\ timers' = tms \ Unowned(n, t)
            /\ UNCHANGED got

Refuse(n, p, r, tms) ==
  /\ Acknowledge(p.msg, {}, Received(p))
  /\ rx' = [rx EXCEPT ![n] = r]
  /\ timers' = tms
  /\ UNCHANGED got

\* A task for a message that none is active for, from the idle tasks of r.
\* It goes back to them when its first timer cannot be had; when its second
\* cannot, or no memory, the timers it got are deleted and their handles stay.
NewTask(n, r, p) ==
  IF r.idle = <<>> THEN Refuse(n, p, r, timers)
  ELSE LET t == Head(r.idle)
           s == [r EXCEPT !.idle = Tail(@), !.active = @ \cup {t}, !.task[t] = Start(@, p.msg)]
           q == [r EXCEPT !.idle = Append(Tail(@), t)] IN
       \/ TakeSegment(n, s, t, p, Disowned(Unowned(n, t)))
       \/ TimerFails /\ Refuse(n, p, q, timers)
       \/ /\ TimerFails
          /\ \E lost \in {{Own(n, "ack", t)}, Unowned(n, t)} :
               Refuse(n, p, [q EXCEPT !.task[t].dead = TRUE], Disowned(lost))

\* meshx_lower_trans_receive_seg_msg with rx_task_request: a segment of an
\* older message is refused, one of a newer message takes the place of the
\* older message.
RecvSegment(n, p) ==
  /\ p \in air /\ p.kind = "segment" /\ Up(n) /\ Script[p.msg].dst = n
  /\ LET r == rx[n]
         A == Active(r, Script[p.msg].src) IN
     \/ A = {} /\ NewTask(n, r, p)
     \/ \E t \in A :
          CASE r.task[t].msg > p.msg -> Refuse(n, p, r, timers)
            [] r.task[t].msg = p.msg -> TakeSegment(n, r, t, p, timers)
            [] r.task[t].msg < p.msg -> NewTask(n, RxRelease(r, t), p)
  /\ UNCHANGED <<setting, tx, posted, outcome, fault>>

AckTimeout(n, t, running) ==
  /\ Acknowledge(rx[n].task[t].msg, rx[n].task[t].acked, air)
  /\ timers' = running
  /\ UNCHANGED <<tx, rx, outcome, got, fault>>

\* An incomplete message is given up, a complete one forgotten.  A timer
\* that is deleted already is freed again.
IncompleteTimeout(n, t, running) ==
  /\ IF rx[n].task[t].dead
     THEN fault' = [fault EXCEPT ![n] = "freed"] /\ timers' = running /\ UNCHANGED rx
     ELSE /\ rx' = [rx EXCEPT ![n] = RxRelease(rx[n], t)]
          /\ timers' = running \ Unowned(n, t)
          /\ UNCHANGED fault
  /\ UNCHANGED <<tx, air, outcome, got>>

-----------------------------------------------------------------------------
(* Timers.  A timeout is handled by what its task is at that moment.       *)

Handle(n, kind, t, running) ==
  \/ kind = "retry" /\ RetryTimeout(n, t)
  \/ kind = "ack" /\ AckTimeout(n, t, running)
  \/ kind = "incomplete" /\ IncompleteTimeout(n, t, running)

\* The thread of a timer posts a timeout, and the node gets to it before
\* anything else happens to the task.
Expire(tm) ==
  /\ tm \in timers /\ Up(tm.node)
  /\ Handle(tm.node, tm.kind, tm.slot, timers \ {tm})
  /\ UNCHANGED <<setting, posted>>

\* The node gets to it later.
Post(tm) ==
  /\ StaleTimeouts /\ tm \in timers /\ Up(tm.node)
  /\ timers' = timers \ {tm}
  /\ posted' = posted \cup {<<tm.node, tm.kind, tm.slot>>}
  /\ UNCHANGED <<setting, tx, rx, air, outcome, got, fault>>

Timeout(n, kind, t) ==
  /\ <<n, kind, t>> \in posted /\ Up(n)
  /\ posted' = posted \ {<<n, kind, t>>}
  /\ Handle(n, kind, t, timers)
  /\ UNCHANGED setting

Next ==
  \/ \E n \in Node, m \in Msg : Send(n, m)
  \/ \E n \in Node : \E p \in air : RecvSegment(n, p) \/ RecvAck(n, p)
  \/ \E tm \in timers : Expire(tm) \/ Post(tm)
  \/ \E to \in posted : Timeout(to[1], to[2], to[3])

\* A timer that runs expires, whatever is received in the meantime.
Fairness == \A n \in Node, t \in TxSlot : WF_vars(Expire(Own(n, "retry", t)))
Spec == Init /\ [][Next]_vars /\ Fairness

-----------------------------------------------------------------------------
(* Properties *)

\* A task is in one list of its node at a time: never in two, and never lost
\* to all of them, whatever timeouts and acknowledgements come in between.
InSeq(s, t) == Cardinality({i \in DOMAIN s : s[i] = t})
OneIf(b) == IF b THEN 1 ELSE 0
TasksConserved ==
  \A n \in Node : Up(n) =>
    /\ \A t \in TxSlot : InSeq(tx[n].idle, t) + InSeq(tx[n].pending, t) + OneIf(t \in tx[n].active) = 1
    /\ \A t \in RxSlot : InSeq(rx[n].idle, t) + OneIf(t \in rx[n].active) = 1

\* A message waits only behind one that is under way to the same
\* destination, whose end will start it: nothing waits for nothing.
WaitsForSome ==
  \A n \in Node : \A i \in DOMAIN tx[n].pending : Up(n) => Blocked(tx[n], tx[n].pending[i])

\* Segments go out for a message only while no other message is under way to
\* its destination (the note at the head of the file), if no timeout is stale.
OneAtATime ==
  [][\A p \in air' \ air : p.kind = "segment" /\ ~StaleTimeouts =>
       LET n == Script[p.msg].src IN
       \A t \in tx'[n].active :
         Dst(tx'[n], t) = Script[p.msg].dst => tx'[n].task[t].msg = p.msg]_vars

\* A message of several segments to a node that is sent a longer message, of
\* any source: its receive task may be one the longer message was in.
Shrinks(m) ==
  Script[m].last > 0 /\ \E k \in Msg : Script[k].dst = Script[m].dst /\ Script[k].last > Script[m].last

\* A sender that takes its message for received is right: the receiver has
\* passed it on ("remote received all segments").  The two exceptions are in
\* the code: leftover flags of a longer message, and a message that the
\* replay list refuses when all of it has been acknowledged.
AckHonest ==
  \A m \in Msg : outcome[m] = "acked" /\ ~Shrinks(m) /\ ~RplRejects => got[m] # {}

\* Nothing is delivered before all of its segments came, however they are
\* repeated and whatever the task was used for before.
Complete ==
  [][\A m \in Msg : got'[m] # got[m] =>
       \E t \in rx'[Script[m].dst].active :
         rx'[Script[m].dst].task[t].msg = m /\ rx'[Script[m].dst].task[t].acked = Seg(m)]_vars

\* What the promises below are about: all messages, where no fault but the
\* loss, delay and repetition of packets happens and no receive task has flags
\* left of a longer message.
Promised ==
  IF StaleTimeouts \/ TimerFails \/ RplRejects \/ \E m \in Msg : Shrinks(m) THEN {} ELSE Msg

\* Every message that was taken is sent to the end: acknowledged, cancelled
\* or out of retries, the ones that had to wait included, so that again and
\* again nothing is left to send.
SendEnds == []<>(\A m \in Promised : outcome[m] \notin {"waiting", "sending"})

\* What the transport promises of its messages.
Promise == INSTANCE SegTransfer WITH
  dest <- [m \in Promised |-> <<Script[m].src, Script[m].dst>>],
  outcome <- [m \in Promised |-> outcome[m]],
  delivered <- {m \in Promised : got[m] # {}}
Transfer == Promise!Spec

-----------------------------------------------------------------------------
(* What comments and messages of the code promise and the code does not    *)
(* keep; README.md, section 5, tells how each is refuted.                  *)

\* The assertion of meshx_list_remove holds: a node removed is in a list.
NoAssert == \A n \in Node : fault[n] # "assert"

\* A timer is deleted once: a handle that a task keeps is one of a timer.
DeletedOnce == \A n \in Node : fault[n] # "freed"

\* "initialize segment flag": a task that is given a new message misses the
\* segments of that message and no others.
StartsFresh ==
  [][\A n \in Node : \A t \in rx'[n].active :
       rx'[n].task[t].msg # rx[n].task[t].msg =>
         rx'[n].task[t].missing \subseteq Seg(rx'[n].task[t].msg)]_vars
=============================================================================
