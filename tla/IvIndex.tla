------------------------------ MODULE IvIndex ------------------------------
(***************************************************************************)
(* The IV index of a node while it sends: mesh/node/meshx_iv_index.c with  *)
(* the sequence numbers (mesh/node/meshx_seq.c) and as much of the lower   *)
(* transport (mesh/transport/meshx_lower_trans.c) as decides when segments *)
(* go out and when a task ends.  The network key makes the pair (IV index, *)
(* sequence number) the nonce of a network PDU (meshx_net_encrypt).        *)
(*                                                                         *)
(* lead is the rest of the network: the node hears its beacons, late ones  *)
(* included.                                                               *)
(***************************************************************************)
EXTENDS IvUpdate, FiniteSets

CONSTANTS
  Task,       \* transmit tasks of the lower transport, one destination each
  SeqMax,     \* MESHX_SEQ_MAX
  SegMax,     \* number of the last segment of a segmented message
  Retries,    \* trans_tx_retry_times                        (2)
  BusyRecovery, \* whether recovery may come while segmented messages are under way
  MaxIndex,   \* bound: last index of the network
  MaxMsgs     \* bound: messages the node sends

ASSUME IvIndexAssumption ==
  /\ SeqMax \in Nat /\ SegMax \in Nat /\ Retries \in Nat /\ MaxIndex \in Nat /\ MaxMsgs \in Nat
  /\ BusyRecovery \in BOOLEAN

VARIABLES
  iv,     \* the node's IV index, an IvState
  seq,    \* the sequence number of its element
  tasks,  \* what each active task keeps of its message
  used,   \* network PDUs sent: IV index, sequence number, content
  msgs,   \* messages sent so far, also the number of the latest
  since,  \* ticks since the node last changed its update state
  lead    \* index and update state of the network
vars == <<iv, seq, tasks, used, msgs, since, lead>>

Seg == 0 .. SegMax

\* The part of a task's msg_tx_ctx that outlives the call that made it.
TaskState == [iv : Nat, auth : 0 .. SeqMax, msg : Nat, tries : 0 .. Retries]
Active == DOMAIN tasks
Pdu == [iv : Nat, seq : 0 .. SeqMax, msg : Nat, seg : Seg]
Busy == Active # {}

TypeOK ==
  /\ iv \in IvState
  /\ seq \in 0 .. SeqMax
  /\ Active \subseteq Task /\ tasks \in [Active -> TaskState]
  /\ used \subseteq Pdu
  /\ msgs \in 0 .. MaxMsgs
  /\ since \in 0 .. TickMax
  /\ lead \in [index : 0 .. MaxIndex, updating : BOOLEAN]

Init ==
  /\ iv = IvInit(0)
  /\ seq = 0
  /\ tasks = [t \in {} |-> 0]
  /\ used = {}
  /\ msgs = 0
  /\ since = TickMax
  /\ lead = [index |-> 0, updating |-> FALSE]

-----------------------------------------------------------------------------
(* Sending *)

\* meshx_seq_use called k times: the last number is handed out for ever.
SeqAfter(s, k) == IF s + k > SeqMax THEN SeqMax ELSE s + k
NthSeq(s, k) == SeqAfter(s, k - 1)

\* Segments in S go out in order, each under a number of its own.
Rank(S, i) == Cardinality({j \in S : j <= i})
\* Mutant: every segment of a call goes out under the same number.
SentSameSeq(S, index, s, m) == {[iv |-> index, seq |-> s, msg |-> m, seg |-> i] : i \in S}

Sent(S, index, s, m) == {[iv |-> index, seq |-> NthSeq(s, Rank(S, i)), msg |-> m, seg |-> i] : i \in S}

\* An unsegmented message.
SendUnsegmented ==
  /\ msgs < MaxMsgs
  /\ msgs' = msgs + 1
  /\ used' = used \cup Sent({0}, TxIndex(iv), seq, msgs')
  /\ seq' = SeqAfter(seq, 1)
  /\ UNCHANGED <<iv, tasks, since, lead>>

\* meshx_upper_trans_send takes the number that authenticates the message,
\* meshx_lower_trans_tx_task_run one for each segment.
SendSegmented(t) ==
  /\ msgs < MaxMsgs
  /\ t \notin Active
  /\ msgs' = msgs + 1
  /\ tasks' = [u \in Active \cup {t} |->
       IF u = t THEN [iv |-> TxIndex(iv), auth |-> seq, msg |-> msgs', tries |-> 0] ELSE tasks[u]]
  /\ used' = used \cup Sent(Seg, TxIndex(iv), SeqAfter(seq, 1), msgs')
  /\ seq' = SeqAfter(seq, SegMax + 2)
  /\ UNCHANGED <<iv, since, lead>>

Finished(t) ==
  /\ tasks' = [u \in Active \ {t} |-> tasks[u]]
  /\ iv' = IvTaskFinished(iv)
  /\ since' = IF iv'.updating = iv.updating THEN since ELSE 0

\* A retry, after a timeout or an acknowledgement of other segments: the
\* numbers handed out are checked against the one that authenticates the
\* message, and a task whose check fails ends.
Retry(t) ==
  /\ t \in Active /\ tasks[t].tries < Retries
  /\ \E S \in SUBSET Seg \ {{}} :
       IF seq >= tasks[t].auth
       THEN /\ used' = used \cup Sent(S, tasks[t].iv, seq, tasks[t].msg)
            /\ seq' = SeqAfter(seq, Cardinality(S))
            /\ tasks' = [tasks EXCEPT ![t].tries = @ + 1]
            /\ UNCHANGED <<iv, since>>
       ELSE /\ seq' = SeqAfter(seq, 1)
            /\ Finished(t)
            /\ UNCHANGED used
  /\ UNCHANGED <<msgs, lead>>

\* A task is acknowledged, cancelled, or out of retries.
Finish(t) ==
  /\ t \in Active
  /\ Finished(t)
  /\ UNCHANGED <<seq, used, msgs, lead>>

-----------------------------------------------------------------------------
(* The clock and the beacons *)

Cleared(s, clears) == IF clears THEN 0 ELSE s
Elapsed(ticks) == IF iv'.updating # iv.updating THEN 0
                  ELSE IF since + ticks > TickMax THEN TickMax ELSE since + ticks

Tick ==
  /\ iv' = IvTick(iv, Busy)
  /\ seq' = Cleared(seq, TickClears(iv, Busy))
  /\ since' = Elapsed(1)
  /\ UNCHANGED <<tasks, used, msgs, lead>>

\* A beacon of the network that is on the air, or an older one that is late.
Hear(i, u) ==
  /\ Phase(i, u) <= Phase(lead.index, lead.updating)
  /\ BusyRecovery \/ ~Busy \/ Distance(iv, i, u) <= 1
  /\ iv' = IvUpdated(iv, i, u, Busy)
  /\ seq' = Cleared(seq, UpdateClears(iv, i, u, Busy))
  /\ since' = Elapsed(0)
  /\ UNCHANGED <<tasks, used, msgs, lead>>

\* The network starts an update, or completes it.
Lead ==
  /\ lead' = IF lead.updating THEN [lead EXCEPT !.updating = FALSE]
             ELSE [index |-> lead.index + 1, updating |-> TRUE]
  /\ lead'.index <= MaxIndex
  /\ UNCHANGED <<iv, seq, tasks, used, msgs, since>>

Next ==
  \/ SendUnsegmented
  \/ \E t \in Task : SendSegmented(t) \/ Retry(t) \/ Finish(t)
  \/ Tick
  \/ \E i \in 0 .. MaxIndex, u \in BOOLEAN : Hear(i, u)
  \/ Lead

\* The tick timer is periodic, and a task has a bounded number of retries,
\* each behind a timer of its own.
Fairness == WF_vars(Tick) /\ \A t \in Task : WF_vars(Finish(t))
Spec == Init /\ [][Next]_vars /\ Fairness

-----------------------------------------------------------------------------
(* Properties *)

\* Two different network PDUs never go out under the same nonce: not when
\* the numbers restart, nor when a task that began before sends again.
NonceUnique ==
  \A p, r \in used : p.iv = r.iv /\ p.seq = r.seq => p = r

\* The index used for sending never goes back, whatever order the beacons,
\* the clock and the ends of tasks come in.
TxMonotone == [][TxIndex(iv') >= TxIndex(iv)]_vars

\* A node does not stay in an update for ever, even if it hears no beacon
\* and is always sending.
UpdateEnds == iv.updating ~> ~iv.updating

-----------------------------------------------------------------------------
(* What comments and messages of the code promise and the code does not    *)
(* keep; README.md, section 5, tells how each is refuted.                  *)

\* The return to normal operation waits until no segmented message is under
\* way: a deferred return happens when the last task ends.
ReturnsWhenQuiet ==
  [][iv.updating /\ ~iv'.updating => DOMAIN tasks' = {}]_vars

\* Between two changes of the update state lie at least 96 hours.
OperateTime ==
  [][iv'.updating # iv.updating => since >= Tick96 \/ TestMode]_vars
=============================================================================
