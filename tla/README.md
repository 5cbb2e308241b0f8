# MeshX: verification project

MeshX is a Bluetooth mesh stack in C. This directory holds TLA+ models of its
control logic, the TLC configurations that check them on small instances and
TLAPS proofs that hold for every value of the parameters. The models are
translated from the C code; section 5 lists where a comment, a message or an
assertion of the code promises something that the code does not keep, and how
to see it.

## 1. The system

A node runs one *mesh thread* (`tests/meshx_device.c:357`,
`tests/meshx_provisioner.c:404`). It reads a queue of three kinds of entry:
packets from the receive thread, characters from the console thread, and
tokens for asynchronous messages, which timer threads post
(`mesh/common/meshx_async.c:87`). Every protocol handler runs to completion on
the mesh thread, and the layers call each other synchronously inside it. So
the unit of interleaving is one queue entry, and what a handler reads may be
stale with respect to the moment its entry was *posted*.

| Component | State | Operations | Hard behaviour | What makes it correct |
|---|---|---|---|---|
| Provisioning over PB-ADV (`mesh/provision/meshx_pb_adv.c`) | list of link objects: state, link id, transaction numbers sent/received/acknowledged, reassembly buffer, **one** timer with a three-valued use, retry time | open, acknowledge and close a link; send and receive transactions in segments; acknowledge after a delay; retransmit; monitor | loss, repetition, delay; timeouts queued while the state changes; object deleted and re-created; two link ends | a PDU is processed once and in order; an acknowledgement means it was processed; every session ends and is supervised |
| Provisioning protocol (`mesh/provision/meshx_prov.c`) | state of the procedure, key material | ten PDUs sent and received, notifications to the application, beacon on and off | rejected PDUs, PDUs out of order, application calls back into the library | success is reported only if the device took the data |
| Lower transport (`mesh/transport/meshx_lower_trans.c`) | pools of send and receive tasks, timers, block acknowledgements | segment, send, acknowledge, retry, reassemble, expire | task reuse with queued timeouts, one message per destination, pools at their limit | a message is delivered once and complete; tasks return to the pool |
| IV index (`mesh/node/meshx_iv_index.c`) | index, phase, operate time, pending transition | tick, update from beacon, end of a transmission | deferred transition while segments are under way | the index in use never decreases; minimum time in each phase |
| Sequence numbers, replay list, message cache (`meshx_seq.c`, `meshx_rpl.c`, `meshx_nmc.c`) | arrays with an end index | use, check, update, clear | arrays at their limit, restart of numbers with a new IV index | no replay accepted, no message processed twice, fresh messages accepted |
| Keys (`mesh/node/meshx_key.c`) | key lists with old and new value and a refresh phase | add, update, delete, change phase | phases of bound keys changed by beacon and by command | both ends share a usable key in every phase |
| Beacons (`mesh/beacon/meshx_beacon.c`) | one timer | start, stop, receive | a beacon drives IV index and key refresh | an unprovisioned device is discoverable |
| Network (`mesh/network/`) | interfaces, each pointing at a bearer | create, connect, disconnect, delete; send on one or all, loop back, receive (relaying is a TODO) | pointers in both directions while either end is deleted | a packet goes out once and comes in by a live interface |
| Proxy (`mesh/proxy/`) | reassembly objects | segment, reassemble, time out | an object kept after completion | messages delivered whole |
| GAP action queue (`mesh/gap/meshx_gap.c`) | idle and active list | add, run | head-of-line action, full queue | every accepted action runs |
| Asynchronous messages (`mesh/common/meshx_async.c`) | pool of ten | post, process | several threads, pool exhausted | no timeout lost |
| Upper transport, access, bearers, security | none of protocol interest | transform and dispatch | - | - |

`PROJECT.json` lists every component with its sources and every hazard found,
at its line, with the properties that are about it.


## 2. Plan

What the project has, in the order it was built:

1. **PbAdv** with **ProvDialogue** as its abstract specification.
2. **IvUpdate** (the index) and **IvIndex** (the index while the node sends).
3. **SeenLists** (the two lists of what was seen) and **Replay** (both lists,
   and the index, under messages that are repeated and reordered).
4. **LowerTrans** with **SegTransfer** as its abstract specification.
5. **KeyStore** (one key) with **KeyRefresh** (a network that changes its keys)
   and **KeyCalls** (the lists of keys of one node).
6. **Proxy**, **GapQueue**, **AsyncList**, **NetIface**.
7. Proofs: **PbAdvProofs**, **IvIndexProofs**, **ReplayProofs**,
   **KeyRefreshProofs**, **KeyCallsProofs**, **BearerProofs** (NetIface, Proxy),
   **GapQueueProofs**, **LowerTransProofs**.

Modules that hold only operators on a value (IvUpdate, SeenLists, KeyStore)
are extended by the modules with state. None declares a RECURSIVE operator.

What is left:

* PbAdv with a GATT bearer, once the repository can create one, and relaying,
  once `mesh/network/meshx_net.c` has it.
* The composition of IvIndex with LowerTrans: now IvIndex has tasks of its
  own, which keep of a transmission only what the index reads.

## 3. The modules and the code

Every definition names, in `PROJECT.json`, the lines it stands for.

### 3.1 Provisioning

* `ProvDialogue.tla` - what an application may rely on: the eleven PDUs of the
  procedure are delivered in order and once each until a side is told that the
  link ended; success is told only after the data has been delivered.
* `PbAdv.tla` - two nodes, provisioner and device, each running both C files
  and the application callbacks of `tests/`.
* `MC_PbAdv.tla` - sets of packets for the configurations.

#### State and actions

`dev[n]` is the link object (`meshx_pb_adv_dev_t`) of node `n`, plus a log of
what its handlers did: the PDUs accepted in this session (`heard`), the numbers
sent (`sent`), how the session ended (`ended`), whether the UDB beacon runs
(`udb`) and whether provisioning data was ever accepted (`provisioned`).
`q[n]` is the queue of the mesh thread, holding packets and timeouts.

| Action | Code |
|---|---|
| `RecvLinkOpen`, `RecvLinkAck`, `RecvLinkClose` | `meshx_pb_adv_recv_link_open/ack/close` |
| `RecvTransStart`, `RecvTransContinue`, `RecvTransAck` | `meshx_pb_adv_recv_trans_start/continue/ack` |
| `HandleDelayAck`, `HandleDelayPdu` | the two cases of `meshx_pb_adv_handle_delay` |
| `HandleRetry`, `HandleLinkLoss` | `meshx_pb_adv_handle_retry`, `meshx_pb_adv_handle_link_loss` |
| `HandleStaleObject` | a timeout whose object is gone (`meshx_pb_adv_is_device_valid`) |
| `Fire` | a timer thread posts a timeout |
| `Connect` | the `conn` command: `meshx_prov_create_device`, `meshx_prov_link_open` |
| `Lose`, `Overhear` | the radio |

A handler is an operator from the old object to the new one; the helpers below
it (`SendPdu`, `LinkClose`, `ProvPduProcess`, ...) compose as the C functions
call each other, application callback included (`Answer`). The packets a handler sends collect in `out` and reach the
peer's queue when the step ends.

Abstractions: the content of a PDU is its type, and content checks give a
nondeterministic verdict (`Verdicts`) for the PDUs in `Rejectable`; the checksum
compares the PDUs the segments were cut from; `timer_state` and
`timer_delay_type` are one field; retry times count periods; a refused
acknowledgement is the only failure of the bearer that is modelled
(`SendMayFail`). The device starts unprovisioned with its UDB beacon on
(`meshx.c:57`); the test application gives its device an address beforehand,
which suppresses the beacon but is not looked at by provisioning.

Transaction numbers start one below their first value (0xff and 0x7f), so
`tx` wraps in every session. `SegPkt`s of a late session carry the old link id,
which the code does not check (`meshx_find_prov_dev_by_link_id`).

#### Timing

No clock is modelled. By default a delay (20 to 49 ms) and a retransmission
period (300 ms, 200 ms, 20 ms) end in any order relative to each other and to
the peer's packets, as they may when a node is slow or the medium is loaded.
The link monitor (600 s) ends only when nothing is in flight and neither node
has a delay or a retransmission left (`MayExpire`): every exchange gives up
within 30 s, except link opening, whose last retransmission comes 200 ms
*after* the monitor of the peer and may therefore race with it (`Retrying`). With `Patient`
retransmissions wait for outstanding answers, which is the normal case of
300 ms against at most 49 ms and the transmission time.


`FairSpec` assumes that each node's mesh thread goes on serving its queue
(`while (1)` in `meshx_thread`) and that an armed timer goes on expiring (the
timers are created as repeating ones). It assumes nothing of the radio: lost
packets are bounded by `MaxNoise`, not by fairness. A timeout posted while
another of the same node is unprocessed is one the code handles in the same
state or treats as a second retransmission.

### 3.2 IV index and sequence numbers

* `IvUpdate.tla` - the static variables of `mesh/node/meshx_iv_index.c` as one
  record and its functions as operators: a tick of the clock, a beacon, the end
  of a segmented message; and for each, whether it clears the sequence numbers
  and the replay list.
* `IvIndex.tla` - one node that sends under this index.

`iv` is that record, `seq` the sequence number of the one element, `tasks` what
an active transmit task keeps (`msg_tx_ctx`: index, authenticating number,
tries). `used` and `since` are a history: the network PDUs sent and the time
since the last change of the update state. `lead` is the rest of the network.

| Action | Code |
|---|---|
| `SendUnsegmented`, `SendSegmented` | `meshx_upper_trans_send`, `meshx_lower_trans_tx_task_run`, `meshx_seq_use` |
| `Retry` | the second and later runs of a task, with the check of the numbers handed out |
| `Finish` | `meshx_lower_trans_tx_task_finish` with the deferred return to normal operation |
| `Tick` | `meshx_iv_index_async_handle_timeout` |
| `Hear` | `meshx_iv_index_update` after a secure network beacon |
| `Lead` | another node starts or completes an update |

A tick is 1200 s in the code; here 96 h are one tick, 144 h two and 48 weeks
four, which keeps their order. Beacons may be late by any amount. Fairness: the
tick timer is periodic, and a task has a bounded number of retries behind a
timer each; nothing is assumed of beacons.

### 3.3 Replay list and message cache

* `SeenLists.tla` - the two lists as sequences and their check and update, with
  the slot behind the last entry which `meshx_rpl_update` looks at.
* `Replay.tla` - the way of an unsegmented message through `meshx_net_receive`
  and `meshx_lower_trans_receive`: cache, replay check, acceptance.

`air` keeps every PDU ever sent, so that repetition, delay and reordering need
no action of their own. `Ignore`, `Refuse` and `Accept` are the three ways
through the handler. `Hear` (a beacon) and `Expire` (the tick that ends an
update; other ticks change nothing here and are left out) move the index of a
node (`Move`), which may clear the sender's numbers and the receiver's list.
`got` is everything that was ever accepted, in order, and `since` how much of
it was accepted before the list was cleared last.
The cache compares structures with their padding: a match of the first slot may
go unnoticed, one of any other slot is never looked at.

### 3.4 Lower transport

* `SegTransfer.tla` - what is promised: per destination one message at a time
  and in order, and a message counts as received only after it is delivered.
* `LowerTrans.tla` - the transmit and receive tasks of several nodes.
* `MC_LowerTrans.tla` - the settings: which messages, which faults.

`tx[n]` and `rx[n]` are the pools and lists of node n; `timers` the timers that
run, with whether the task still has their handle (a handle that is overwritten
leaves a timer nobody can stop); `posted` the timeouts in the queue.

| Action | Code |
|---|---|
| `Send` | `meshx_lower_trans_send`, `process_seg_msg`, `tx_task_request`, `tx_task_try` |
| `Run`, `Finish`, `Release` | `tx_task_run`, `tx_task_finish`, `tx_task_release` |
| `Again`, `Resend` | `meshx_lower_trans_handle_tx_timeout`, and the segments it sends again |
| `RecvAck` | `meshx_lower_trans_recv_block_ack` |
| `RecvSegment`, `NewTask`, `TakeSegment` | `meshx_lower_trans_receive_seg_msg`, `rx_task_request` |
| `Expire`, `Post` and `Timeout` | a timer thread and the three `meshx_lower_trans_async_handle_..._timeout` |

`Expire` is a timeout that is handled before anything else happens to its task;
`Post` and `Timeout`, allowed where a setting has `stale`, are one that waits in
the queue. A message is named by its place in the script; the content of a
segment is its number. `RplRejects` is the replay list refusing a complete
message, `TimerFails` the system refusing a timer, or the memory of a receive
task: the first of its two timers, the second when the first exists already, or
the memory when both do. A task whose second timer was refused keeps the handle
of the first, which has been deleted (`dead`). `fault[n]` records an assertion,
a copy from address zero or a timer that is deleted twice, which end the node.
Fairness: a retry timer that was started expires. It is a single-shot timer
(`mesh/transport/meshx_lower_trans.c:501`), started again after every
transmission. Nothing is assumed of the receiver or of the air.

### 3.5 Keys and key refresh

* `KeyStore.tla` - one network or application key: two values, their
  identifiers, a phase; which value is sent with and which are tried.
* `KeyRefresh.tla` - nodes that share a network key and an application key, and
  the configuration manager that hands out new values and sends beacons. The
  manager is not in the repository: it makes the calls the repository offers.
* `KeyCalls.tla` - the lists of one node: network keys by index, application
  keys that point to a network key, device keys for ranges of addresses.
* `MC_KeyRefresh.tla`, `MC_KeyCalls.tla` - identifiers that differ or collide.

`UpdateNet`, `UpdateApp`, `AddNet`, `DeleteNet`, `AddApp`, `AddDev` are the
functions of the same names in `mesh/node/meshx_key.c`; `Hear`, `HearManager`
and `HearNode` are `meshx_beacon_receive` for a beacon authenticated under a
value with a key refresh flag. A PDU under a value can be read by a node that
holds the value and tries it before another value with the same identifier
(`Opens`), because the first attempt decrypts in place. A second value that was
never written has any identifier in `Junk`. Fairness: the manager retries until
each node has answered and its beacons are periodic; nothing is assumed of the
nodes' own beacons.

### 3.6 Proxy protocol

`Proxy.tla`: `Send` is `meshx_proxy_send`, `ProxyReceive` with its branches
`ReceiveEmpty`, `ReceiveUnexpected`, `ReceiveStart`, `ReceiveMismatch` and
`ReceiveNext` is `meshx_proxy_receive`, `TimerExpires` and `HandleTimeout` are
the timer thread and the handler on the mesh thread. A GATT bearer is reliable
and ordered for what it takes. It may refuse any PDU (`BearerRefuses`): the
sender looks at no result and goes on with the next one, and `whole` keeps
whether all PDUs of a message were taken. Contexts have an identity, so that a
timeout that refers to a context that is gone shows. The handler works on the
freed context then (`mesh/proxy/meshx_proxy.c:74-107`); this is `fault`, where
the model ends. Fairness: bearer, timer and mesh thread go on.

### 3.7 GAP action queue

`GapQueue.tla`: `Add` is `meshx_gap_add_action`, `RunActions` is
`meshx_run_actions`, which takes one action at most, `Start` and `Stop` are
`meshx_gap_start` and `meshx_gap_stop`, `HandleStatus` is
`meshx_gap_handle_bt_status`. The stack calls `meshx_gap_start` when it
starts (`meshx.c:52`); nothing in the repository calls `meshx_gap_stop` or
reports a status.

Three radios are modelled. The wrapper of `platform/linux` writes an
advertisement at once and reports nothing (`silent`). The other two are what
the status events are for: one reports before the call returns (`prompt`), the
other later (`late`). They, and the events `Sent` and `ScanEnds`, are external.
`Stop` leaves the events that are under way, as the code does. When a prompt
radio reports the end of an advertisement inside `meshx_gap_adv_stop`, the
first waiting action starts before the queue is cleared, and its advertisement
stays on the air (`StopSilences`, section 5). A radio is taken to report the end
of an advertisement once, when it ends or when it is stopped; one that reported
it twice would break `NotReplaced`. Fairness: an advertisement ends, and events
are handled.

### 3.8 Asynchronous messages

`AsyncList.tla`: the statements of `meshx_list_pop` (what it unlinks included)
and `meshx_list_append` are steps of their own, for the timer threads
(`meshx_async_msg_send`) and the mesh thread (`meshx_async_msg_process`), since
no lock protects the lists. This is the one place where threads share memory;
the other modules take a posted timeout for granted.

### 3.9 Network interfaces

`NetIface.tla`: `Create`, `Delete`, `Connect`, `Disconnect` are the functions
of `mesh/network/meshx_net_iface.c`, `CreateBearer` and `DeleteBearer` those of
`mesh/bearer/meshx_bearer_adv.c`, `SendOn`, `SendOnAll` and `Receive` the ways
of a PDU in `mesh/network/meshx_net.c`. A new interface is cleared by the size of its
handle: its other fields hold what the memory held (`stale`).

## 4. What is checked

Every run is TLC on the module and configuration that `PROJECT.json` names,
without symmetry but for `sessions`, where the two addresses an object may be
allocated at are interchangeable: they are only compared, and the run has no
liveness property. Each property of a passing run has a mutant there: a
plausible slip in one definition that the same run finds.

| Run | Question | Bounds | Distinct states |
|---|---|---|---|
| `racing` | Does any order of delays, retransmissions and answers break the transactions, when PDUs are rejected too? Type, `TransNumUnambiguous`, `AckHonest`, `Supervised`, `NoAssert`, refinement `InOrder` | one session, queue 5, one packet lost, one retry of each kind | 2.1 M |
| `sessions` | Does anything of one session or of a neighbour's link leak into the next? `Agreement`, `NoAssert`, `Supervised` | two sessions, queue 3, two addresses, one foreign acknowledgement or close or one loss, nothing retried | 2.6 M |
| `patient` | Does provisioning succeed and end? `Succeeds`, `SessionEnds` | queue 6, one packet lost, 3/2/2 retries | 396 |
| `iv` | Can a nonce be used twice, the index go back, an update last for ever? `NonceUnique`, `TxMonotone`, `UpdateEnds` | two tasks of two segments, three messages, two updates | 1.25 M |
| `replay` | Is a replay accepted, a fresh message refused, between two clearings of the list? `FirstStands`, `FreshAccepted` | two sources, two numbers each before a clear, lists of two, three accepted, one update | 1.12 M |
| `transport` | Are tasks conserved, is a destination free when a message starts, is an acknowledgement true, does every message end? Seven properties and the refinement `Transfer` | six settings of one to three messages of one or two segments, one receive task, one retry | 0.37 M |
| `key_refresh` | Can the nodes talk to each other during a refresh, and does it end? `NetUnderstood`, `NetNeverBack`, `RefreshEnds` | three nodes, two refreshes | 1648 |
| `key_calls` | Do lists and pointers between keys stay consistent? `AppFollowsNet`, `PrimaryFound` | two network indices, two application indices, two values, lists of 2/1/2 | 0.75 M |
| `proxy` | Are messages handed up whole? `Intact`, `CtxEnds` | two bearers that may refuse any PDU, two messages of one to three PDUs, until a timeout finds its context gone | 82.7 k |
| `gap_queue` | Does the queue keep its order and get on? `InOrder`, `NotReplaced`, `AdStarts` | three radios, three slots, four actions, two late events | 26.3 k |
| `net_iface` | Do the pointers agree? `Linked`, `ReceivedByLive` | three interfaces, the list too short for all | 11.1 k |
| `async_race` | Is a message that was sent ever lost? (expected violation of `SentIsQueued`) | two timer threads, three nodes, three messages | - |

Why the bounds are enough:

* *Provisioning.* Every PDU type, the three-segment public key and every state
  occur; one retry gives a duplicate of every packet and a retransmission that
  meets the answer to the first. A queue of five holds a whole segmented PDU,
  the first segments of its duplicate and a timeout. One unprocessed timeout at
  a time is what periods far longer than a handler's run give, and already lets
  a timeout be handled in a state other than the one it was posted in.
* *IV index.* Two updates let a node be two behind and recover; three messages
  on two tasks let one be under way before, during and after an update.
* *Replay.* Lists of two fill up and wrap; three messages accepted are one more
  than that, and let one come on each side of a clearing with a third between.
* *Transport.* Three messages are one under way, one waiting behind it and one
  to another destination; one receive task is taken over by every new source.
  `MaxLen` counts the received length up to one more than any message has.
* *Keys.* A second refresh starts from a key whose first value came from the
  first; a third node is one that hears neither sender nor receiver in time.
  The beacons of the manager are in time (`LateBeacons` FALSE); of the three
  properties `NetNeverBack` passes with late ones too (12 k states).
* *Proxy, queue, interfaces.* Each list can be full. `Proxy` with three messages
  on one bearer (482 k states) and `GapQueue` with six actions and three events
  (665 k) pass as well.

`CHECK_DEADLOCK FALSE` stands where a system rests at its bounds: all messages
sent, all sessions used, all keys added. `IvIndex` and `NetIface` always have a
step and are checked.

In `async_race` two timer threads are in `meshx_list_pop` at once, take the same
node of the idle list and post it twice; when the mesh thread has gone on, a
message of which the sender was told nothing bad is on no list and never
handled; `mesh/common/meshx_async.c:91` reports "send async message failed: out
of resource" as the only way to lose one.

## 5. Where the code departs from its comments

The modules end with properties that a comment, a message or an assertion of
the code promises and the code does not keep. To see one refuted, put it into
the configuration named, in place of the properties there, with the constants
changed as said. "Without" names a condition to take out of a property that
holds: it is there because of this departure.

| Property | Configuration and change | What happens |
|---|---|---|
| `PbAdv!LossMeansSilence` | `PbAdvRacing` | A queued retransmission timeout is handled after the state changed, is taken for the end of the 600 s monitor, and closes the link |
| `PbAdv!SessionEnds` | `PbAdvPatient`, `Patient` FALSE, `MaxQ` 5, `MaxNoise` 0, retries 1/1/1 | A closing node that receives a late PDU switches to FAILED, which is never retransmitted |
| `PbAdv!ReceivedIsPending` | `PbAdvPatient`, `MaxNoise` 2 | A repeated acknowledgement overwrites the delay before acknowledging a received PDU: its buffer stays occupied |
| `PbAdv!NoAssert` | `PbAdvSessions`, `Overheard <- OthersSegment`, `MaxSessions` 1, `MaxQ` 4 | A transaction number of the wrong half schedules FAILED without a change of state: "should never reach here" is reached |
| `PbAdv!InOrder`, `Supervised` | `PbAdvRacing`, `SendMayFail` TRUE | The bearer refuses an acknowledgement: the PDU is processed twice, and a session is left without a timer |
| `PbAdv!CloseIsOwn` | `PbAdvSessions` | A LINK_CLOSE of the previous session closes the current one |
| `PbAdv!Discoverable` | `PbAdvRacing` | After a session that failed the device sends no UDB beacon |
| `IvIndex!NonceUnique` | `IvIndex`, `BusyRecovery` TRUE, or `SeqMax` 5 | Recovery (`mesh/node/meshx_iv_index.c:182`) clears the numbers while segments are under way with the same index; a number at its maximum is handed out again |
| `IvIndex!ReturnsWhenQuiet` | `IvIndex` | "check whether send segment message" (:155) postpones the return, but the deferred return comes when *any* task ends |
| `IvIndex!OperateTime` | `IvIndex` | Entering an update leaves the clock at 96 h or more, so the update may end at once (:145, :173) |
| `Replay!OneEntryPerSource` | `Replay` | `meshx_rpl_update` looks at the slot behind the last entry (`mesh/node/meshx_rpl.c:63`): "found exists rpl" is never true, and a source is added once more |
| `Replay!FirstStandsForEver` | `Replay` | The end of an update clears the list (`mesh/node/meshx_iv_index.c:99`, `:167`), but messages of the index before are still decrypted (`mesh/network/meshx_net.c:173`): a late copy of an accepted one is accepted again |
| `Replay!FreshByIndex` | `Replay` | The check compares the numbers alone (`mesh/node/meshx_rpl.c:109`): a message of a newer index, whose numbers start over, is refused for an older one with a larger number |
| `Replay!FirstStands` without `Listed` | `Replay`, `RplSize` 1 | A source first heard when the list is full is let in by what lies behind the array, and its first message again later |
| `Replay!CachedIgnored` | `Replay` | The search of the cache ends after its first slot (`mesh/network/meshx_nmc.c:114`) |
| `LowerTrans!NoAssert` | `LowerTrans` | A task that gets no timer is finished while in no list, against the assertion of `meshx_list_remove` |
| `LowerTrans!DeletedOnce` | `LowerTrans` | A receive task is taken over and its second timer is refused: the first is deleted, its handle stays, and the incomplete timer of the former message releases the task and deletes it again (`mesh/transport/meshx_lower_trans.c:867-884`) |
| `LowerTrans!AckHonest` without `~RplRejects` | `LowerTrans` | The replay list refuses a message after its last segment; a timeout of a timer without a handle acknowledges it all the same |
| `LowerTrans!StartsFresh` | `LowerTrans`, one setting: a message of three segments from a and one of two from c, both to b, no faults | "initialize segment flag" adds the new segments to those missing from the former message |
| `LowerTrans!AckHonest` without `~Shrinks` | the same | The shorter message is acknowledged in full, and flags left over from the longer one keep it from being handed up |
| `LowerTrans!OneAtATime` without `~StaleTimeouts` | `LowerTrans`, `TxSlots` 2, three messages of one segment from a to b, stale timeouts | A retry timeout names the task only, and sends the message that now waits in it |
| `KeyRefresh!AppNeverBack` | `KeyRefresh` | At the end of a refresh the old application value is sent with again |
| `KeyRefresh!RevokedUnused` | `KeyRefresh` | A node's own beacon has no key refresh flag: who hears it revokes the old value while others send with it |
| `KeyRefresh!LabelsDerived` | `KeyRefresh` | The new application value is at index 1, the identifier is derived for index 0 |
| `KeyRefresh!RefreshEnds` | `KeyRefresh`, `LateBeacons` TRUE | An update repeated after a late beacon has ended the refresh leaves a key in phase 1 with two equal values, for ever |
| `KeyRefresh!HeldOpens` | `KeyRefresh`, `Label <- Colliding` | The first of two values with one identifier spoils the PDU for the second |
| `KeyCalls!BoundAsAsked` | `KeyCalls` | `meshx_find_net_key` returns the last key when none has the index |
| `KeyCalls!DevDisjoint` | `KeyCalls`, `Elements` {1, 3} | Only the ends of a range are compared: an enclosing range is taken |
| `Proxy!WholeIsNotified` | `Proxy` | A message in one PDU is kept like a first segment |
| `Proxy!PdusCarryData` | `Proxy` | A multiple of the MTU is cut into one empty PDU too many, which the receiver refuses |
| `Proxy!IntactThoughRefused` | `Proxy` | The result of `meshx_bearer_gatt_send` is not looked at (`mesh/proxy/meshx_proxy.c:204`, `:237`): a PDU in the middle is refused, the first and the last are put together and handed up |
| `Proxy!TimeoutFindsCtx` | `Proxy` | A timeout is queued when the last PDU releases the context: its data, its timer and its place in the list are freed again (`mesh/proxy/meshx_proxy.c:74-107`) |
| `Proxy!SizeRecorded` | `Proxy`, `Initial` 3, `Lengths` {7} | Expanding a context adds the new size to the old one |
| `GapQueue!StopSilences` | `GapQueue` | The end of the advertisement, reported inside `meshx_gap_adv_stop`, starts the next one before the queue is cleared (`mesh/gap/meshx_gap.c:104-106`, `:171-176`) |
| `GapQueue!NeverReplaced` | `GapQueue` | Until a late radio reports a start, the next action is started over it |
| `NetIface!SentOnce` | `NetIface` | The bearer is cleared without telling its interface; created again, it is connected twice |
| `NetIface!FiltersSet` | `NetIface` | An output filter is called before the test for a bearer |
| `NetIface!AlreadyConnected` | `NetIface` | A new interface keeps what its memory held, and its first connection is refused |

## 6. What is proved

TLAPS checks these for every value of the constants that satisfies the named
assumptions of the modules.

| Theorem | States | Under |
|---|---|---|
| `TypeCorrect`, `AgreementHolds` (PbAdvProofs) | types; success is told only after the device took the data | for the second, no overheard packet is a COMPLETE PDU or a LINK_CLOSE with success |
| `NeverAsserts`, `AlwaysSupervised` | the assertion in the delay handler is not reached; an object in use has a running timer | `Foreign` and `[]NumbersLast`, see below; for the second, `~SendMayFail` |
| `NumbersUnambiguous` | a number stands for one PDU in a session | `Foreign`, `[]NumbersLast`, `[]DevNumbersLast` |
| `AcksHonest` | what is acknowledged was accepted, or its receiver has given up | `OneLink`, `[]NumbersLast`, `[]DevNumbersLast` |
| `DialogueKept` | PbAdv implements ProvDialogue: `Spec => InOrder` | the same |
| `TypeCorrectIv`, `TxNeverBack` (IvIndexProofs) | types; the index sent with never decreases | - |
| `NoncesUnique` | no two PDUs share index and number | `~BusyRecovery`, and `[]NumbersLeft`: the numbers do not run out |
| `TypeCorrectReplay`, `FirstMessageStands`, `FreshMessageAccepted` (ReplayProofs) | types; between two clearings of the list what was accepted first is not accepted again, and what follows it is not refused unless the list is full or the source's numbers start over | - |
| `TypeCorrect`, `Conserved`, `WaitBehind`, `AcksHonest` (LowerTransProofs) | types; each task is in one list; who waits has one before it; what is taken for received was delivered | - |
| `DeliveredWhole`, `Alone` | nothing is handed up in part; one message of a destination at a time (unless a timeout is stale, as the property says) | - |
| `KeepsPromise` | LowerTrans implements SegTransfer, for the messages of a setting whose only faults are loss, delay and repetition (`Promised`): `Spec => Transfer` | - |
| `TypeCorrectKeys`, `NetKeyNeverBack` (KeyRefreshProofs) | types; a node never goes back to an older network key | identifiers are numbers, `~LateBeacons` |
| `NetAlwaysUnderstood` | every node can read every other, in every stage | also, different values have different identifiers |
| `TypeCorrectLists`, `AppKeysFollow` (KeyCallsProofs) | types; an application key is in the phase of its network key | identifiers are numbers |
| `PrimaryKeyFound` | a primary address leads to its own device key | - |
| `TypeCorrectIfaces`, `PointersAgree`, `ReceivedByConnected` (BearerProofs) | types; the two properties of the run | - |
| `WholeMessages` (BearerProofs) | `Intact` of Proxy: of the messages whose PDUs a GATT bearer all took, it hands up whole ones only, as they were sent, until a timeout finds its context gone | - |
| `TypeCorrectQueue`, `StartInOrder`, `NoneReplaced` (GapQueueProofs) | slots are conserved; advertisements start in order; none replaces another at a radio that reports at once, unless the stack is stopped | - |

`Foreign` says that a packet of somebody else's link is no segment, and no
acknowledgement of number 255. The link id of a packet selects nothing, so that
a node may hear a segment of either half of the numbers; the first condition
keeps the branch of `handle_delay` for a number of the wrong half out of reach,
which sends a PDU in whatever state the object is in. The second would stop the retry of LINK_OPEN: `tx` is 255 while
the provisioner opens, and `meshx_pb_adv_recv_trans_ack` looks at nothing else.
`NumbersLast` (`DevNumbersLast`) says that the provisioner (the device) is not
at the last of its 128 numbers. A session that goes well takes six (five); but an
object that is closing takes PDUs and may fail again, so that enough
repetitions reach the end, and the numbers then start over. The runs never do.
`OneLink` says that one session is looked at (a packet of the session before is
indistinguishable from one of this), that nobody else's packet is heard, that
the bearer refuses no acknowledgement (section 5 shows what happens otherwise),
and that INVITE and FAILED are not rejected for their content: a device that
rejects an INVITE cannot send FAILED, for it is in no state for it, and has
acknowledged what it did not take.

The inductive invariants, and why the property alone is not one:

* **`AInv`** for `Agreement`: success is told by a LINK_CLOSE that follows a
  COMPLETE state, that follows a COMPLETE PDU on its way or in a buffer. Until
  the device is provisioned none of these exist in either object (`Unfinished`)
  or queue (`NoneFinishing`). One lemma per helper and handler says that an
  object `Evolves`: it keeps its types, a provisioned node stays provisioned,
  an unfinished object stays unfinished unless it is the device accepting the
  data; handlers are proved by composing the lemmas of the helpers they call,
  and `StepPreserves` lifts one object to two nodes and their queues.
* **`SInv`** for `NoAssert` and `Supervised`: each object is `Good`, and the
  packets for a node are `Sane`, that is, of the half of the numbers its peer
  has. `Good` is `Steady` (a PDU is due only in the state of one, an
  acknowledgement is due only for a number of the peer, the provisioner that
  opens has its retry timer and number 255, each node keeps to its half) and,
  if the bearer refuses nothing, `Timed` (in use means armed). The property
  alone is not inductive: whether an acknowledgement may leave the object in
  `delay_pdu` in a state that sends nothing depends on the number in the packet,
  that is, on what the peer may send.
* **`AllNumbered`** for `TransNumUnambiguous`: what was sent has numbers up to
  the present one, below it while a new PDU waits for its delay, and a PDU that
  is sent again is the one its number was given to. It needs `SInv`: only there
  does a PDU that is due have a number of its own.
* **`OInv`** for `AckHonest` and the refinement `InOrder`: what a node has sent,
  what its peer has heard and what is under way between them follow from how
  many PDUs each has heard. Each node sends the PDUs of its `Line`, each under
  a number of its own (`Entry`), and a table, `Stages`, gives the state that
  goes with so many heard and so many sent. `Way` says of one direction that the
  PDUs heard are the first of the line and were all sent (`Heard`), that besides
  them only the next one and FAILED were (`Sent`, `Placed`), that segments
  travel in the order of their numbers (`Stream`), that the buffer is of a PDU
  that was sent (`Buffered`), that nothing comes behind the number that was
  acknowledged (`Window`), and that acknowledgements are of PDUs heard
  (`Receipts`). A node that has given up is `Over`, and the rest of the
  invariant asks less of it. While the link is being opened the device has heard
  and sent nothing (`Opened`), so that a repeated LINK_OPEN, which starts it
  afresh, forgets nothing; a session that goes on has no outcome yet, and a
  provisioned device has heard all six (`Ends`). Per handler one lemma gives the
  `Result` for the two nodes and the `Log` for the applications; `OrderedStep`
  puts them together. For the refinement, `NextInScript` shows that the next PDU
  of a node's line is the next of the script at the place both have come to.
* **`TypeInv`** for `TxMonotone`: an update is never in progress at index 0
  (`Sound`), so that the index before it exists.
* **`NonceInv`** for `NonceUnique`: an index is `Live` if it is the one sent
  with now or the one of a task under way. PDUs sent under a live index have
  smaller numbers than the next one (`Behind`). The numbers restart only when
  no task is active and the index moves on, so that no live index has a past.
* **`ListInv`** for the replay list, of what was accepted since it was cleared
  (`Recent`): entries are never changed, so the first one of a source is the one
  that guards it. It is what the source was first accepted with, or what came
  later is newer (`Guarded`); while there is room every source accepted is in the
  list (`Kept`), every source in the list has such an entry (`HasGuard`), and was
  accepted since the clearing (`Opened`).
* **`NetInv`** for a refresh: the stage of the manager tells which of four forms
  (`Before`, `Distributed`, `InUse`, `After`) the key of a node may have. Any
  two forms that one stage allows understand each other.
* **`KeyInv`** for the lists: no index twice (`Lists`), each application key is
  bound to a key that is there or to a freed one (`Bound`), and is in its phase
  (`Follows`). **`DevInv`**: no range holds the primary address of a later one,
  so that the first match is the right one.
* **`Inv`** for the interfaces adds to `Linked` that the interface the bearer
  points at is in the list and has its filters, and that there is none without
  a bearer (`LinkInv`).
* **`ProxyInv`** for `Intact`: each PDU under way is the part of a message
  between two bytes (`Part`), and behind a PDU comes the first one of a message
  or the part that goes on where it ends (`Flow`). What a context holds is the
  start of a message, of which the next PDU is the continuation, unless a message
  starts there (`Collects`). The property alone says nothing of contexts. An
  empty PDU, which the receiver refuses, is always the last one of its message:
  this is why refusing it joins nothing. PDUs of a message of which one was
  refused by the bearer (`OfLost`) are excepted from all this, and so are
  contexts that hold a byte of one (`WithGap`).
* **`Inv`** for the action queue: advertisements stand before scans (`Sorted`)
  and in the order asked for (`Rising`), all after those in the log (`Logged`).
  While a prompt radio advertises, and until the one event that tells the end is
  handled, it is known to do so (`Prompt`), over stops and restarts too: this is
  why no second one can be started before.
* **`Inv`** for the lower transport has six parts: `Typed`; `Sending`, for each
  node the lists of its transmit tasks (`TxInv`: disjoint, without repetition;
  `Counted` and `Full`: together all of the pool; `Waits`: who waits has an
  active task of the same destination); `Receiving` (`RxInv`: what is
  missing and what has come make up the message of a task; `AllKept`: where
  nothing is missing the message was handed up);
  `InAir` (packets are segments of messages, and acknowledgements of segments
  that came);
  `Timing` (each timer and timeout is one of a task there is); and `Honest`
  (what is acknowledged in full was handed up). `StepKinds` shows that a step
  of any node either sends, receives or posts, so that each property of a step
  is proved for three kinds of step rather than for every handler.
* **`KeepsPromise`** is the refinement, step by step: the initial states map to
  initial states; a step that refuses, queues, begins, ends or delivers a
  message maps to the action of that name, any other to a stutter. A handler
  that ends a message and begins the next of the same destination is one step of
  the abstract specification too. The invariant it adds, `Told`, says for settings
  without stale timeouts and timer failures that a task's message has the
  outcome its list gives it and what waits stands in the order of the script
  (`Known`), and that messages are taken in that order (`InOrder`).

Only model-checked: all of liveness (`Succeeds`, `SessionEnds`, `UpdateEnds`,
`SendEnds`, `RefreshEnds`, `CtxEnds`, `AdStarts`), which is out of the prover's
reach; AsyncList, whose run is a counterexample.

## 7. What is not modelled

* The arithmetic of keys, confirmations, encryption and obfuscation: a verdict
  in PbAdv, a match of values in KeyStore.
* Upper transport and access layer beyond the choice of keys and numbers, and
  node parameters: they keep no state of their own. What bounds a list or a
  retry there is a constant here.
* The GATT bearer and the proxy client: nothing in the repository creates them.
* Foundation models, empty at this commit; the console, tracing and command
  parsing; operating system and radio, which appear as threads and as a medium.
* The interval of the beacons; whether one is sent at all, and what a received
  one does, is modelled.
* What a component loses when the pool of asynchronous messages is empty.
* What a node does after it has freed a proxy context or a timer twice: the
  models end there.
* In Replay: ticks of the clock that do not end an update.
* In provisioning: malformed lengths of packets (dropped without effect by the
  first lines of each handler), authentication by other methods than "no OOB"
  (the applications choose no other), a provisioner that opens links to several
  devices at once.
* In the lower transport: friend queue and directed forwarding, which the code
  does not have; segments of one message that disagree on its header.
